---- MODULE Spec2Model ----
(***************************************************************************)
(* Model of the single-player-tarkov container entrypoint                  *)
(* (src/entrypoint/main.go) and of its helper mod (src/mod/src/mod.ts):    *)
(* the configuration-patch engine, the first launch of the server          *)
(* (initializeServer) and the process (main, preEntrypoint, entrypoint).   *)
(*                                                                         *)
(* Encodings.  A slash-separated string (a patch target key, a JSON        *)
(* pointer, a cfg patch path) is the sequence of its components, i.e. the  *)
(* result of splitting it on "/": "/etc/passwd" is <<"", "etc", "passwd">> *)
(* and "../out.json" is <<"..", "out.json">>.  An absolute file name is    *)
(* the sequence of its components without the leading empty one.  A line   *)
(* of a text file is a sequence of tokens: the characters "[", "]", "="    *)
(* and " " stand for themselves and every other token is a word (a run of  *)
(* other characters).  A string value is the sequence of its newline-      *)
(* separated lines, each one word.                                         *)
(***************************************************************************)
EXTENDS Integers, Sequences, FiniteSets, TLC

VARIABLES
    pc,             \* position of the running function
    engine,         \* "go": entrypoint/main.go, "mod": mod/src/mod.ts
    maps,           \* arguments of mergeConfigPatches
    data,           \* result of mergeConfigPatches
    user,           \* CONFIG_PATCHES of the environment / config.json of the mod
    configPatches,  \* the ConfigPatches being applied
    todo,           \* file keys the range loop has not reached yet
    cur,            \* file key of the current iteration, NoKey between files
    idx,            \* index of the next patch of cur
    fs,             \* the file system: absolute file name -> content
    fs0,            \* the file system when the program started
    io,             \* the file accesses made so far
    log,            \* one entry per attempted patch: key, index, error
    last,           \* the most recent patch attempt, with the file before/after
    failed,         \* the failed flag of applyConfigPatches
    ret,            \* the error returned (Go) or thrown (mod)
    \* initializeServer
    gpc,            \* position of each goroutine: main, sub, poller
    complete,       \* number of values buffered in the channel 'complete'
    ctx,            \* the execution scope: "live", "cancelled", "deadline"
    initErr,        \* the variable err shared by main and the subprocess goroutine
    now,            \* ticker periods elapsed since start, Timeout + 1: beyond the bound
    tick,           \* a tick is waiting in ticker.C
    up,             \* the server answers 200 on its port
    saw200,         \* when the poller observed a 200: "no", "before", "after"
    exited,         \* how and when the subprocess exited
    initRet,        \* the error returned by initializeServer
    \* the process: main, preEntrypoint, entrypoint
    argv,           \* os.Args[1:]
    curUser,        \* getCurrentUser() of the process started
    env,            \* the environment variables UID and GID
    sptUser,        \* the account 'spt' as stored in the image
    ppc,            \* position of the process started
    cmds,           \* the commands run through runCmd, in order
    child,          \* the child spawned by preEntrypoint
    stages,         \* the stages of entrypoint started, in order, with their outcome
    procErr,        \* the error returned by the selected subcommand
    stdout,         \* the error messages logged to standard output
    exitCode,       \* the exit code of the process started
    \* installation: cache, build, mods, persistent data
    ipc,            \* position of the installation step that is running
    input,          \* the arguments of the current call
    avail,          \* the versions of the patch files spt-<v>.patch of the image
    cache,          \* the entries of the cache directory
    tmp,            \* the temporary directories that exist
    disk,           \* the install tree and the persistent volume
    hist,           \* what the calls made so far did, in order
    result          \* the value returned by the current call

patchVars == <<pc, engine, maps, data, user, configPatches, todo, cur, idx,
               fs, fs0, io, log, last, failed, ret>>

srvVars == <<gpc, complete, ctx, initErr, now, tick, up, saw200, exited, initRet>>

procVars == <<argv, curUser, env, sptUser, ppc, cmds, child, stages, procErr,
              stdout, exitCode>>

installVars == <<ipc, input, avail, cache, tmp, disk, hist, result>>

vars == <<patchVars, srvVars, procVars, installVars>>

\* the parts of the state a specification does not use
SrvIdle ==
    /\ gpc = <<>> /\ complete = 0 /\ ctx = "live" /\ initErr = "nil"
    /\ now = 0 /\ tick = FALSE /\ up = FALSE /\ saw200 = "no"
    /\ exited = <<>> /\ initRet = "none"

ProcIdle ==
    /\ argv = <<>> /\ curUser = <<>> /\ env = <<>> /\ sptUser = <<>>
    /\ ppc = "idle" /\ cmds = <<>> /\ child = <<>> /\ stages = <<>>
    /\ procErr = "nil" /\ stdout = <<>> /\ exitCode = -1

InstallIdle ==
    /\ ipc = "idle" /\ input = <<>> /\ avail = {} /\ cache = {} /\ tmp = {}
    /\ disk = <<>> /\ hist = <<>> /\ result = <<>>

PatchIdle ==
    /\ pc = "idle" /\ engine = "go" /\ maps = <<>> /\ data = <<>>
    /\ user = <<>> /\ configPatches = <<>> /\ todo = {} /\ cur = <<>>
    /\ idx = 0 /\ fs = <<>> /\ fs0 = <<>> /\ io = {} /\ log = {}
    /\ last = <<>> /\ failed = FALSE /\ ret = <<>>

Range(s) == {s[i] : i \in 1..Len(s)}

(***************************************************************************)
(* Bounds of the model.                                                    *)
(***************************************************************************)
\* number of ConfigPatches maps handed to mergeConfigPatches
MaxMaps == 3
\* number of file keys in CONFIG_PATCHES / config.json
MaxUserKeys == 2
\* number of lines of a cfg file
MaxCfgLines == 3

(***************************************************************************)
(* Paths.                                                                  *)
(***************************************************************************)
\* pathSpt: the install root, <working directory>/spt with working directory /
PathSpt == <<"spt">>

NoKey == <<>>

\* strings.HasPrefix(relPath, "/") and relPath.startsWith("/")
HasPrefixSlash(relPath) == Len(relPath) >= 2 /\ relPath[1] = ""

\* The lexical clean-up filepath.Join / path.join perform on a rooted path:
\* empty and "." components are dropped, ".." removes the component before
\* it and is dropped at the root.
RECURSIVE Clean(_, _)
Clean(done, rest) ==
    IF rest = <<>> THEN done
    ELSE LET c == Head(rest) IN
         IF c = "" \/ c = "." THEN Clean(done, Tail(rest))
         ELSE IF c = ".." THEN
             Clean(IF done = <<>> THEN done ELSE SubSeq(done, 1, Len(done) - 1),
                   Tail(rest))
         ELSE Clean(Append(done, c), Tail(rest))

\* filepath.Join(pathSpt, relPath) and path.join(this.sptFolder, relPath)
Join(root, relPath) == Clean(<<>>, root \o relPath)

InsideRoot(p) ==
    /\ Len(p) > Len(PathSpt)
    /\ SubSeq(p, 1, Len(PathSpt)) = PathSpt

\* The file keys of the model.
KHttp    == <<"SPT_Data", "Server", "configs", "http.json">>
KCfg     == <<"BepInEx", "config", "core.cfg">>
KTxt     == <<"notes.txt">>
KEsc     == <<"..", "out.json">>
KAbs     == <<"", "etc", "passwd">>
KAbsCfg  == <<"", "etc", "core.cfg">>
KAbsJson == <<"", "etc", "http.json">>

AllKeys == {KHttp, KCfg, KTxt, KEsc, KAbs, KAbsCfg, KAbsJson}

Paths == {Join(PathSpt, k) : k \in AllKeys}

\* String.endsWith on the last component of a file name.
EndsWith(p, suffix) ==
    /\ p # <<>>
    /\ \/ suffix = ".json" /\ p[Len(p)] \in {"http.json", "out.json"}
       \/ suffix = ".cfg" /\ p[Len(p)] \in {"core.cfg"}

(***************************************************************************)
(* Files and patches.                                                      *)
(***************************************************************************)
Absent == [kind |-> "absent"]
JsonFile(doc) == [kind |-> "json", doc |-> doc]
TextFile(lines) == [kind |-> "text", lines |-> lines]

\* ConfigPatch{Op, Path, Value} / Operation of the mod
Patch(op, path, value) == [op |-> op, path |-> path, value |-> value]
NoValue == <<>>

ErrNone == "nil"
ErrNotRelative == "patch path not relative"
ErrNotExist == "no such file or directory"
ErrParse == "invalid JSON document"
ErrApply == "patch operation does not apply"
ErrUnsupported == "unsupported file"
ErrOp == "patch op must be 'replace'"
ErrCfgPath == "patch path must be /section/key"

\* error values: fmt.Errorf(format, args...) / new Error(message)
Nil == [format |-> "<nil>", args |-> <<>>]
Errorf(format, args) == [format |-> format, args |-> args]

\* One file access, tagged with the file key on whose behalf it was made.
Access(op, path, key) == [op |-> op, path |-> path, key |-> key]

(***************************************************************************)
(* JSON Patch on a flat document (a function from its top-level keys to    *)
(* their values), with the semantics of RFC 6902.                          *)
(***************************************************************************)
DocSet(doc, k, v) == [x \in DOMAIN doc \cup {k} |-> IF x = k THEN v ELSE doc[x]]
DocRemove(doc, k) == [x \in DOMAIN doc \ {k} |-> doc[x]]

JsonApply(doc, patch) ==
    LET p == patch.path
        k == p[2]
        ok(d) == [doc |-> d, err |-> ErrNone]
        bad == [doc |-> doc, err |-> ErrApply]
    IN  IF ~(Len(p) = 2 /\ p[1] = "") THEN bad
        ELSE CASE patch.op = "add" -> ok(DocSet(doc, k, patch.value))
               [] patch.op = "replace" ->
                    IF k \in DOMAIN doc THEN ok(DocSet(doc, k, patch.value)) ELSE bad
               [] patch.op = "remove" ->
                    IF k \in DOMAIN doc THEN ok(DocRemove(doc, k)) ELSE bad
               [] patch.op = "test" ->
                    IF k \in DOMAIN doc /\ doc[k] = patch.value THEN ok(doc) ELSE bad
               [] OTHER -> bad

(***************************************************************************)
(* entrypoint/main.go: mergeConfigPatches                                  *)
(***************************************************************************)
\* MergeInto with data[k] = v: the list of a key replaced, not appended to
MergeInto_Overwrite(d, currMap) ==
    [k \in DOMAIN d \cup DOMAIN currMap |->
        IF k \in DOMAIN currMap THEN currMap[k] ELSE d[k]]

\* MergeInto with append(v, data[k]...): later maps put in front
MergeInto_Prepend(d, currMap) ==
    [k \in DOMAIN d \cup DOMAIN currMap |->
        IF k \in DOMAIN currMap
        THEN currMap[k] \o (IF k \in DOMAIN d THEN d[k] ELSE <<>>)
        ELSE d[k]]

\* one iteration of the outer loop: every key of currMap is appended to data
MergeInto(d, currMap) ==
    [k \in DOMAIN d \cup DOMAIN currMap |->
        IF k \in DOMAIN currMap
        THEN (IF k \in DOMAIN d THEN d[k] ELSE <<>>) \o currMap[k]
        ELSE d[k]]

RECURSIVE MergeFrom(_, _)
MergeFrom(d, ms) ==
    IF ms = <<>> THEN d ELSE MergeFrom(MergeInto(d, Head(ms)), Tail(ms))

mergeConfigPatches(ms) == MergeFrom(<<>>, ms)

(***************************************************************************)
(* entrypoint/main.go: applyConfigPatch                                    *)
(***************************************************************************)
\* The result of one call: the file system after it, the error returned,
\* the file accesses made, and the patcher that handled the target.
Outcome(fsys, err, acc, dialect) ==
    [fs |-> fsys, err |-> err, io |-> acc, dialect |-> dialect]

\* applyConfigPatch without its check of the prefix of relPath
applyConfigPatch_NoPrefixCheck(fsys, relPath, patch) ==
    LET path == Join(PathSpt, relPath)
        stat == {Access("stat", path, relPath)}
        read == stat \cup {Access("read", path, relPath)}
        write == read \cup {Access("write", path, relPath)}
    IN  IF fsys[path].kind = "absent" THEN Outcome(fsys, ErrNotExist, stat, "json")
        ELSE IF fsys[path].kind # "json" THEN Outcome(fsys, ErrParse, read, "json")
        ELSE LET r == JsonApply(fsys[path].doc, patch) IN
             IF r.err # ErrNone THEN Outcome(fsys, r.err, read, "json")
             ELSE Outcome([fsys EXCEPT ![path] = JsonFile(r.doc)], ErrNone, write, "json")

\* applyConfigPatch writing back doc, the document it read, instead of newDoc
applyConfigPatch_WritesOldDoc(fsys, relPath, patch) ==
    IF HasPrefixSlash(relPath) THEN Outcome(fsys, ErrNotRelative, {}, "none")
    ELSE
    LET path == Join(PathSpt, relPath)
        stat == {Access("stat", path, relPath)}
        read == stat \cup {Access("read", path, relPath)}
        write == read \cup {Access("write", path, relPath)}
    IN  IF fsys[path].kind = "absent" THEN Outcome(fsys, ErrNotExist, stat, "json")
        ELSE IF fsys[path].kind # "json" THEN Outcome(fsys, ErrParse, read, "json")
        ELSE LET r == JsonApply(fsys[path].doc, patch) IN
             IF r.err # ErrNone THEN Outcome(fsys, r.err, read, "json")
             ELSE Outcome(fsys, ErrNone, write, "json")

applyConfigPatch(fsys, relPath, patch) ==
    IF HasPrefixSlash(relPath) THEN Outcome(fsys, ErrNotRelative, {}, "none")
    ELSE
    LET path == Join(PathSpt, relPath)
        stat == {Access("stat", path, relPath)}
        read == stat \cup {Access("read", path, relPath)}
        write == read \cup {Access("write", path, relPath)}
    IN  IF fsys[path].kind = "absent" THEN Outcome(fsys, ErrNotExist, stat, "json")
        ELSE IF fsys[path].kind # "json" THEN Outcome(fsys, ErrParse, read, "json")
        ELSE LET r == JsonApply(fsys[path].doc, patch) IN
             IF r.err # ErrNone THEN Outcome(fsys, r.err, read, "json")
             ELSE Outcome([fsys EXCEPT ![path] = JsonFile(r.doc)], ErrNone, write, "json")

(***************************************************************************)
(* mod/src/mod.ts: Patcher                                                 *)
(***************************************************************************)
\* the tokens of a string: none for the empty string, the string itself for a
\* word, and for the strings of the model that hold a bracket, "=" or " "
\* the characters and words they are made of
Tok(w) ==
    CASE w = "" -> <<>>
      [] w = "[Http" -> <<"[", "Http">>
      [] w = "x]" -> <<"x", "]">>
      [] w = "Http = x" -> <<"Http", " ", "=", " ", "x">>
      [] OTHER -> <<w>>

\* String.prototype.trim
RECURSIVE TrimLeft(_)
TrimLeft(t) == IF t # <<>> /\ Head(t) = " " THEN TrimLeft(Tail(t)) ELSE t

RECURSIVE TrimRight(_)
TrimRight(t) ==
    IF t # <<>> /\ t[Len(t)] = " " THEN TrimRight(SubSeq(t, 1, Len(t) - 1)) ELSE t

trim(t) == TrimRight(TrimLeft(t))

\* index of the first occurrence of token c in t, 0 when there is none
FirstIndex(t, c) ==
    IF \E i \in 1..Len(t) : t[i] = c
    THEN CHOOSE i \in 1..Len(t) : t[i] = c /\ \A j \in 1..(i - 1) : t[j] # c
    ELSE 0

\* trimmedLine.match(sectionRegex) with sectionRegex = /^\[([^\]]+)\]/ :
\* <<name>> (the captured group) on a match, <<>> (null) otherwise
sectionMatch(t) ==
    LET j == FirstIndex(t, "]") IN
    IF t # <<>> /\ Head(t) = "[" /\ j >= 3 THEN <<SubSeq(t, 2, j - 1)>> ELSE <<>>

\* trimmedLine.split("=", 1)[0].trim()
currentKey(t) ==
    LET e == FirstIndex(t, "=") IN
    trim(IF e = 0 THEN t ELSE SubSeq(t, 1, e - 1))

\* `${patch.value}` as its lines
StringOf(value) == IF value = NoValue THEN <<"undefined">> ELSE value

\* cfgScan comparing the key only, whatever the current section
RECURSIVE cfgScan_AnySection(_, _, _, _, _)
cfgScan_AnySection(lines, index, currentSection, section, key) ==
    IF index > Len(lines) THEN 0
    ELSE LET trimmedLine == trim(lines[index])
             m == sectionMatch(trimmedLine)
         IN  IF m # <<>> THEN cfgScan_AnySection(lines, index + 1, m, section, key)
             ELSE IF currentKey(trimmedLine) = Tok(key)
                  THEN index
                  ELSE cfgScan_AnySection(lines, index + 1, currentSection, section, key)

\* The scan loop of applyCfgPatch from line `index` on: the index of the line
\* it replaces, 0 when it reaches the end of the file without replacing.
RECURSIVE cfgScan(_, _, _, _, _)
cfgScan(lines, index, currentSection, section, key) ==
    IF index > Len(lines) THEN 0
    ELSE LET trimmedLine == trim(lines[index])
             m == sectionMatch(trimmedLine)
         IN  IF m # <<>> THEN cfgScan(lines, index + 1, m, section, key)
             ELSE IF currentSection = <<Tok(section)>>
                     /\ currentKey(trimmedLine) = Tok(key)
                  THEN index
                  ELSE cfgScan(lines, index + 1, currentSection, section, key)

\* lines.join("\n") read back as lines, after lines[index] = `${key} = ${value}`
cfgRewrite(lines, index, key, value) ==
    LET v == StringOf(value)
        first == Tok(key) \o <<" ", "=", " ">> \o Tok(v[1])
        more == [i \in 1..(Len(v) - 1) |-> Tok(v[i + 1])]
    IN  IF index = 0 THEN lines
        ELSE SubSeq(lines, 1, index - 1) \o <<first>> \o more
             \o SubSeq(lines, index + 1, Len(lines))

applyCfgPatch(fsys, path, relPath, patch) ==
    IF patch.op # "replace" THEN Outcome(fsys, ErrOp, {}, "cfg")
    ELSE IF Len(patch.path) # 3 THEN Outcome(fsys, ErrCfgPath, {}, "cfg")
    ELSE
    LET section == patch.path[2]
        key == patch.path[3]
        read == {Access("read", path, relPath)}
        write == read \cup {Access("write", path, relPath)}
    IN  IF fsys[path].kind = "absent" THEN Outcome(fsys, ErrNotExist, read, "cfg")
        ELSE LET lines == fsys[path].lines
                 index == cfgScan(lines, 1, <<>>, section, key)
             IN  Outcome([fsys EXCEPT ![path] =
                             TextFile(cfgRewrite(lines, index, key, patch.value))],
                         ErrNone, write, "cfg")

applyJsonPatch(fsys, path, relPath, patch) ==
    LET read == {Access("read", path, relPath)}
        write == read \cup {Access("write", path, relPath)}
    IN  IF fsys[path].kind = "absent" THEN Outcome(fsys, ErrNotExist, read, "json")
        ELSE IF fsys[path].kind # "json" THEN Outcome(fsys, ErrParse, read, "json")
        ELSE LET r == JsonApply(fsys[path].doc, patch) IN
             IF r.err # ErrNone THEN Outcome(fsys, r.err, read, "json")
             ELSE Outcome([fsys EXCEPT ![path] = JsonFile(r.doc)], ErrNone, write, "json")

\* normalizePath without its startsWith("/") check
normalizePath_NoCheck(relPath) == <<Join(PathSpt, relPath)>>

\* normalizePath: <<>> when it throws, <<the joined path>> otherwise
normalizePath(relPath) ==
    IF HasPrefixSlash(relPath) THEN <<>> ELSE <<Join(PathSpt, relPath)>>

\* applyPatch handing every target that is not a .cfg file to the JSON patcher
applyPatch_NoUnsupported(fsys, relPath, patch) ==
    LET n == normalizePath(relPath) IN
    IF n = <<>> THEN Outcome(fsys, ErrNotRelative, {}, "none")
    ELSE LET normalizedPath == n[1] IN
         IF EndsWith(normalizedPath, ".cfg")
         THEN applyCfgPatch(fsys, normalizedPath, relPath, patch)
         ELSE applyJsonPatch(fsys, normalizedPath, relPath, patch)

applyPatch(fsys, relPath, patch) ==
    LET n == normalizePath(relPath) IN
    IF n = <<>> THEN Outcome(fsys, ErrNotRelative, {}, "none")
    ELSE LET normalizedPath == n[1] IN
         IF EndsWith(normalizedPath, ".cfg")
         THEN applyCfgPatch(fsys, normalizedPath, relPath, patch)
         ELSE IF EndsWith(normalizedPath, ".json")
         THEN applyJsonPatch(fsys, normalizedPath, relPath, patch)
         ELSE Outcome(fsys, ErrUnsupported, {}, "none")

(***************************************************************************)
(* Inputs.                                                                 *)
(***************************************************************************)
VDefault == <<"0.0.0.0">>
VLocal == <<"127.0.0.1">>
VUser == <<"10.0.0.1">>
PtrIp == <<"", "ip">>
PtrBackendIp == <<"", "backendIp">>
PtrPort == <<"", "port">>
PtrHttpPort == <<"", "Http", "Port">>

\* the ConfigPatches literal of entrypoint
BuiltIn ==
    KHttp :> << Patch("replace", PtrIp, VDefault),
                Patch("replace", PtrBackendIp, VDefault) >>

\* patch lists of the user
JSetIp == << Patch("replace", PtrIp, VUser) >>
JTestThenPort == << Patch("test", PtrIp, VUser), Patch("replace", PtrPort, <<"8080">>) >>
JAddRemove == << Patch("add", PtrIp, VUser), Patch("remove", PtrIp, NoValue) >>
JMissing == << Patch("replace", <<"", "nope">>, VUser) >>
CSetPort == << Patch("replace", PtrHttpPort, <<"8080">>) >>

ListsFor(k) ==
    CASE k = KHttp -> {JSetIp, JTestThenPort, JAddRemove, JMissing, <<>>}
      [] k = KCfg -> {CSetPort, JSetIp}
      [] k = KAbsCfg -> {CSetPort}
      [] k = KAbs -> {JSetIp, <<>>}
      [] OTHER -> {JSetIp}

AllLists == UNION {ListsFor(k) : k \in AllKeys}

\* the values CONFIG_PATCHES / config.json can take
UserPatches ==
    UNION { {m \in [D -> AllLists] : \A k \in D : m[k] \in ListsFor(k)} :
            D \in {E \in SUBSET AllKeys : Cardinality(E) <= MaxUserKeys} }

\* http.json as the first launch of the server wrote it
HttpDoc == [ip |-> VLocal, backendIp |-> VLocal, port |-> <<"6969">>]

CfgSample ==
    << <<"[", "Http", "]">>,
       <<"Port", " ", "=", " ", "6969">>,
       <<"Host", " ", "=", " ", "local">> >>

\* the file system with http.json being h and core.cfg holding the lines c
FsInit(h, c) ==
    [p \in Paths |->
        CASE p = Join(PathSpt, KHttp) -> h
          [] p = Join(PathSpt, KCfg) -> TextFile(c)
          [] p = Join(PathSpt, KTxt) -> JsonFile([ip |-> VLocal])
          [] p = Join(PathSpt, KEsc) -> JsonFile([ip |-> VLocal])
          [] OTHER -> Absent]

HttpVariants ==
    { JsonFile(HttpDoc),
      JsonFile([ip |-> VLocal, port |-> <<"6969">>]),
      Absent,
      TextFile(<< <<"not", " ", "json">> >>) }

\* the lines a cfg file is made of
CfgLines ==
    { <<"[", "Http", "]">>,
      <<"[", "Other", "]">>,
      <<" ", "[", "Http", "]", " ", "x">>,
      <<"[", "Http">>,
      <<"Port", " ", "=", " ", "6969">>,
      <<" ", "Port", "=", "1">>,
      <<"Host", " ", "=", " ", "local">>,
      <<>> }

CfgFiles == UNION {[1..n -> CfgLines] : n \in 1..MaxCfgLines}

CfgPaths ==
    { PtrHttpPort, <<"", "Other", "Port">>, <<"", "Http", "">>, <<"", "", "">>,
      <<"x", "Http", "Port">>, <<"", "Http">>, <<"", "Http", "Port", "">> }

CfgPatches ==
    {Patch("replace", p, v) : p \in CfgPaths, v \in {<<"8080">>, <<"a", "b">>}}
    \cup {Patch("add", PtrHttpPort, <<"8080">>), Patch("remove", PtrHttpPort, NoValue)}

\* the arguments of mergeConfigPatches
MergeKeys == {KHttp, KCfg}
MergeLists == {<<>>, JSetIp, JAddRemove}
MergeMaps == UNION {[D -> MergeLists] : D \in SUBSET MergeKeys}
MergeInputs == UNION {[1..n -> MergeMaps] : n \in 0..MaxMaps}

NoLast ==
    [key |-> NoKey, idx |-> 0, patch |-> Patch("", <<>>, NoValue),
     before |-> Absent, after |-> Absent, err |-> ErrNone, dialect |-> "none"]

(***************************************************************************)
(* entrypoint/main.go: entrypoint and applyConfigPatches                   *)
(***************************************************************************)
\* failedAfter with failed = (err != nil): the flag of the last patch only
failedAfter_LastOnly(f, err) == err # ErrNone

\* the failed flag after a patch that returned err
failedAfter(f, err) == f \/ err # ErrNone

\* the state after one patch attempt with outcome r
Attempt(r) ==
    LET p == Join(PathSpt, cur) IN
    /\ fs' = r.fs
    /\ io' = io \cup r.io
    /\ log' = log \cup {[key |-> cur, idx |-> idx, err |-> r.err]}
    /\ last' = [key |-> cur, idx |-> idx, patch |-> configPatches[cur][idx],
                before |-> fs[p], after |-> r.fs[p], err |-> r.err,
                dialect |-> r.dialect]

CurDone == IF cur = NoKey THEN TRUE ELSE idx > Len(configPatches[cur])

\* configPatches = mergeConfigPatches(ConfigPatches{...}, configPatches)
entrypointMerge ==
    /\ pc = "entry" /\ engine = "go"
    /\ maps' = <<BuiltIn, user>>
    /\ data' = mergeConfigPatches(maps')
    /\ configPatches' = data'
    /\ todo' = DOMAIN data'
    /\ pc' = "apply"
    /\ UNCHANGED <<engine, user, cur, idx, fs, fs0, io, log, last, failed, ret>>
    /\ UNCHANGED <<srvVars, procVars, installVars>>

\* for relPath, patches := range configPatches (any order)
GoRange ==
    /\ pc = "apply" /\ engine = "go" /\ CurDone
    /\ \E relPath \in todo :
        /\ cur' = relPath
        /\ todo' = todo \ {relPath}
    /\ idx' = 1
    /\ UNCHANGED <<pc, engine, maps, data, user, configPatches, fs, fs0, io, log,
                   last, failed, ret>>
    /\ UNCHANGED <<srvVars, procVars, installVars>>

\* err := applyConfigPatch(relPath, patch); if err != nil { failed = true }
GoApply ==
    /\ pc = "apply" /\ engine = "go" /\ ~CurDone
    /\ LET r == applyConfigPatch(fs, cur, configPatches[cur][idx]) IN
        /\ Attempt(r)
        /\ failed' = failedAfter(failed, r.err)
    /\ idx' = idx + 1
    /\ UNCHANGED <<pc, engine, maps, data, user, configPatches, todo, cur, fs0, ret>>
    /\ UNCHANGED <<srvVars, procVars, installVars>>

\* if failed { return fmt.Errorf("failed to apply patches") }; return nil
GoReturn ==
    /\ pc = "apply" /\ engine = "go" /\ CurDone /\ todo = {}
    /\ ret' = IF failed THEN Errorf("failed to apply patches", <<>>) ELSE Nil
    /\ pc' = "done"
    /\ UNCHANGED <<engine, maps, data, user, configPatches, todo, cur, idx, fs, fs0,
                   io, log, last, failed>>
    /\ UNCHANGED <<srvVars, procVars, installVars>>

(***************************************************************************)
(* mod/src/mod.ts: Patcher.applyPatches                                    *)
(***************************************************************************)
\* for (const [path, patchList] of Object.entries(patches))
ModEntries ==
    /\ pc = "apply" /\ engine = "mod" /\ CurDone
    /\ \E path \in todo :
        /\ cur' = path
        /\ todo' = todo \ {path}
    /\ idx' = 1
    /\ UNCHANGED <<pc, engine, maps, data, user, configPatches, fs, fs0, io, log,
                   last, failed, ret>>
    /\ UNCHANGED <<srvVars, procVars, installVars>>

\* await this.applyPatch(path, patch): an error thrown ends applyPatches
ModApply ==
    /\ pc = "apply" /\ engine = "mod" /\ ~CurDone
    /\ LET r == applyPatch(fs, cur, configPatches[cur][idx]) IN
        /\ Attempt(r)
        /\ IF r.err # ErrNone
           THEN pc' = "thrown" /\ ret' = Errorf(r.err, <<>>)
           ELSE UNCHANGED <<pc, ret>>
    /\ idx' = idx + 1
    /\ UNCHANGED <<engine, maps, data, user, configPatches, todo, cur, fs0, failed>>
    /\ UNCHANGED <<srvVars, procVars, installVars>>

ModReturn ==
    /\ pc = "apply" /\ engine = "mod" /\ CurDone /\ todo = {}
    /\ pc' = "done"
    /\ UNCHANGED <<engine, maps, data, user, configPatches, todo, cur, idx, fs, fs0,
                   io, log, last, failed, ret>>
    /\ UNCHANGED <<srvVars, procVars, installVars>>

(***************************************************************************)
(* mergeConfigPatches on its own                                           *)
(***************************************************************************)
MergeCall ==
    /\ pc = "merge"
    /\ data' = mergeConfigPatches(maps)
    /\ pc' = "merged"
    /\ UNCHANGED <<engine, maps, user, configPatches, todo, cur, idx, fs, fs0, io,
                   log, last, failed, ret>>
    /\ UNCHANGED <<srvVars, procVars, installVars>>

(***************************************************************************)
(* Specifications.                                                         *)
(***************************************************************************)
InitRest ==
    /\ cur = NoKey /\ idx = 0
    /\ io = {} /\ log = {} /\ last = NoLast
    /\ failed = FALSE /\ ret = Nil
    /\ SrvIdle /\ ProcIdle /\ InstallIdle

\* The patch engine: entrypoint (Go) merging the built-in patches with
\* CONFIG_PATCHES and applying them, or the mod applying its config.json.
Init ==
    /\ engine \in {"go", "mod"}
    /\ user \in UserPatches
    /\ \E h \in HttpVariants : fs = FsInit(h, CfgSample)
    /\ fs0 = fs
    /\ maps = <<>> /\ data = <<>>
    /\ IF engine = "go"
       THEN pc = "entry" /\ configPatches = <<>> /\ todo = {}
       ELSE pc = "apply" /\ configPatches = user /\ todo = DOMAIN user
    /\ InitRest

NextMod == ModEntries \/ ModApply \/ ModReturn

Next == entrypointMerge \/ GoRange \/ GoApply \/ GoReturn \/ NextMod

Spec == Init /\ [][Next]_vars

\* The mod applying one patch to one cfg file.
InitCfg ==
    /\ engine = "mod"
    /\ \E p \in CfgPatches : user = (KCfg :> <<p>>)
    /\ \E c \in CfgFiles : fs = FsInit(JsonFile(HttpDoc), c)
    /\ fs0 = fs
    /\ maps = <<>> /\ data = <<>>
    /\ pc = "apply" /\ configPatches = user /\ todo = DOMAIN user
    /\ InitRest

SpecCfg == InitCfg /\ [][NextMod]_vars

\* mergeConfigPatches applied to any arguments.
InitMerge ==
    /\ engine = "go"
    /\ maps \in MergeInputs
    /\ data = <<>>
    /\ user = <<>> /\ configPatches = <<>> /\ todo = {}
    /\ fs = FsInit(JsonFile(HttpDoc), CfgSample) /\ fs0 = fs
    /\ pc = "merge"
    /\ InitRest

SpecMerge == InitMerge /\ [][MergeCall]_vars

(***************************************************************************)
(* Properties.                                                             *)
(***************************************************************************)
HttpPath == Join(PathSpt, KHttp)
GoDone == engine = "go" /\ pc = "done"
Lookup(m, k) == IF k \in DOMAIN m THEN m[k] ELSE <<>>
AbsKeys == {k \in DOMAIN configPatches : HasPrefixSlash(k)}
Attempted(k, i) == \E l \in log : l.key = k /\ l.idx = i
AllAttempted ==
    \A k \in DOMAIN configPatches :
        \A i \in 1..Len(configPatches[k]) : Attempted(k, i)
FailedFiles == {k \in DOMAIN configPatches : \E l \in log : l.key = k /\ l.err # ErrNone}

\* C1 as claimed: when a file key of the merged ConfigPatches starts with a
\* path separator, applyConfigPatches fails and has modified no file at all
\* (stated for a key that has a patch: a key with an empty patch list is
\* never handed to applyConfigPatch and fails nothing).
C1_NothingModified ==
    (GoDone /\ \E k \in AbsKeys : configPatches[k] # <<>>) =>
        (ret # Nil /\ fs = fs0)

\* C1 as amended: when a file key with at least one patch starts with a path
\* separator, applyConfigPatches returns a failure, every patch of such a key
\* is rejected as not relative without any file access, and the only files
\* that differ from the start are targets of other keys whose patches applied.
C1_AbsoluteKeyFailsOthersApplied ==
    (GoDone /\ \E k \in AbsKeys : configPatches[k] # <<>>) =>
        /\ ret # Nil
        /\ \A e \in io : ~HasPrefixSlash(e.key)
        /\ \A l \in log : HasPrefixSlash(l.key) => l.err = ErrNotRelative
        /\ \A p \in Paths : fs[p] # fs0[p] =>
              \E l \in log : /\ ~HasPrefixSlash(l.key)
                             /\ Join(PathSpt, l.key) = p
                             /\ l.err = ErrNone

\* C1 witness: the run failed on an absolute key and the file of another,
\* valid key has been modified.
C1_Witness ==
    /\ GoDone /\ KAbs \in DOMAIN configPatches /\ configPatches[KAbs] # <<>>
    /\ ret # Nil
    /\ fs[HttpPath] # fs0[HttpPath]

\* C2: every file the engine stats, reads or writes lies inside the install
\* root, and a patch whose key escapes the root is rejected.
C2_NoAccessOutsideRoot ==
    /\ \A e \in io : InsideRoot(e.path)
    /\ \A l \in log : ~InsideRoot(Join(PathSpt, l.key)) => l.err = ErrNotRelative
\* the concatenation m1[k] ++ ... ++ mn[k], absent keys giving the empty list
RECURSIVE ConcatAt(_, _)
ConcatAt(ms, k) ==
    IF ms = <<>> THEN <<>> ELSE Lookup(Head(ms), k) \o ConcatAt(Tail(ms), k)

\* C3: mergeConfigPatches(m1, .., mn)[k] is m1[k] ++ ... ++ mn[k] for every
\* key k, and the keys of the result are the union of the keys of the inputs.
C3_MergeIsConcatenation ==
    pc = "merged" =>
        /\ DOMAIN data = UNION {DOMAIN maps[i] : i \in 1..Len(maps)}
        /\ \A k \in MergeKeys : Lookup(data, k) = ConcatAt(maps, k)

\* C3 witness: three maps merged, two of them with different non-empty lists
\* under the same key, a second key coming from the last map only.
C3_Witness ==
    /\ pc = "merged" /\ Len(maps) = 3
    /\ Lookup(maps[1], KHttp) = JSetIp /\ Lookup(maps[2], KHttp) = JAddRemove
    /\ KCfg \notin DOMAIN maps[1] /\ KCfg \notin DOMAIN maps[2]
    /\ Lookup(maps[3], KCfg) = JSetIp
    /\ data[KHttp] = JSetIp \o JAddRemove \o Lookup(maps[3], KHttp)

IsWrite(op) == op.op \in {"add", "replace", "remove"}
IsSet(op) == op.op \in {"add", "replace"}
\* no other key of configPatches names the file of key k
SoleKey(k) ==
    \A k2 \in DOMAIN configPatches :
        (~HasPrefixSlash(k2) /\ Join(PathSpt, k2) = Join(PathSpt, k)) => k2 = k

\* C4: when the built-in patch of /ip and a patch of the user that sets /ip
\* (the last of the user's operations writing /ip) have both been applied to
\* http.json, the file holds the user's value once entrypoint has applied
\* the merged patches.
C4_UserPatchWins ==
    (GoDone /\ SoleKey(KHttp)) =>
        \A j \in 1..Len(Lookup(user, KHttp)) :
            LET op == user[KHttp][j] IN
            ( /\ IsSet(op) /\ op.path = PtrIp
              /\ \A j2 \in (j + 1)..Len(user[KHttp]) :
                    ~(IsWrite(user[KHttp][j2]) /\ user[KHttp][j2].path = PtrIp)
              /\ [key |-> KHttp, idx |-> 1, err |-> ErrNone] \in log
              /\ [key |-> KHttp, idx |-> Len(BuiltIn[KHttp]) + j, err |-> ErrNone] \in log )
            => ( /\ fs[HttpPath].kind = "json"
                 /\ "ip" \in DOMAIN fs[HttpPath].doc
                 /\ fs[HttpPath].doc["ip"] = op.value )

\* C4 witness: the default and the user both replaced /ip of http.json and
\* the file ends with the user's value.
C4_Witness ==
    /\ GoDone /\ Lookup(user, KHttp) = JSetIp
    /\ fs0[HttpPath] = JsonFile(HttpDoc)
    /\ [key |-> KHttp, idx |-> 1, err |-> ErrNone] \in log
    /\ [key |-> KHttp, idx |-> 3, err |-> ErrNone] \in log
    /\ fs[HttpPath].doc["ip"] = VUser

Strip(l) == trim(l)
\* <<name>> when the stripped line starts with "[name]", name non-empty and
\* free of "]"; <<>> when the line is no section header
HeaderName(l) ==
    LET t == Strip(l)
        J == {j \in 3..Len(t) : t[1] = "[" /\ t[j] = "]"
                                 /\ \A i \in 2..(j - 1) : t[i] # "]"}
    IN  IF J = {} \/ t[2] = "]" THEN <<>>
        ELSE LET j == CHOOSE x \in J : TRUE IN <<SubSeq(t, 2, j - 1)>>
\* the stripped text left of the first "=" of the line
LeftOfEq(l) ==
    LET t == Strip(l)
        n == CHOOSE x \in 0..Len(t) :
                /\ \A i \in 1..x : t[i] # "="
                /\ x = Len(t) \/ t[x + 1] = "="
    IN  Strip(SubSeq(t, 1, n))
\* the section line i lies in: the name of the nearest header above it
SectionAt(lines, i) ==
    LET H == {j \in 1..(i - 1) : HeaderName(lines[j]) # <<>>} IN
    IF H = {} THEN <<>>
    ELSE HeaderName(lines[CHOOSE j \in H : \A x \in H : x <= j])
IsTarget(lines, i, section, key) ==
    /\ HeaderName(lines[i]) = <<>>
    /\ SectionAt(lines, i) = <<Tok(section)>>
    /\ LeftOfEq(lines[i]) = Tok(key)
\* the first line of key in section, 0 when there is none
FirstTarget(lines, section, key) ==
    LET T == {i \in 1..Len(lines) : IsTarget(lines, i, section, key)} IN
    IF T = {} THEN 0 ELSE CHOOSE i \in T : \A x \in T : i <= x
\* the lines of the text "key = value"
KeyValueLines(key, value) ==
    LET v == StringOf(value) IN
    [i \in 1..Len(v) |->
        IF i = 1 THEN Tok(key) \o <<" ", "=", " ">> \o Tok(v[1]) ELSE Tok(v[i])]

\* the most recent attempt was a replace patch /section/key handed to the cfg
\* patcher, on a file that exists
CfgReplaceAttempt ==
    /\ last.key # NoKey /\ last.dialect = "cfg"
    /\ last.patch.op = "replace"
    /\ Len(last.patch.path) = 3 /\ last.patch.path[1] = ""
    /\ last.before.kind = "text"

\* C6 as claimed: applyCfgPatch with a replace patch /S/K rewrites the first
\* line of key K in section S to "K = value", leaves every other line as it
\* was and preserves the number of lines.
C6_OneLineRewritten ==
    CfgReplaceAttempt =>
        LET b == last.before.lines
            a == last.after.lines
            t == FirstTarget(b, last.patch.path[2], last.patch.path[3])
        IN  /\ last.err = ErrNone /\ last.after.kind = "text"
            /\ Len(a) = Len(b)
            /\ \A i \in 1..Len(b) : i # t => a[i] = b[i]
            /\ t # 0 => a[t] = KeyValueLines(last.patch.path[3], last.patch.value)[1]

\* C6 as amended: the first line of key K in section S is replaced by the
\* text "K = value" and all lines before and after it are unchanged; the
\* number of lines is preserved when the value contains no line break, and
\* grows by the number of line breaks of the value otherwise.
C6_FirstMatchReplacedByText ==
    CfgReplaceAttempt =>
        LET b == last.before.lines
            a == last.after.lines
            t == FirstTarget(b, last.patch.path[2], last.patch.path[3])
            kv == KeyValueLines(last.patch.path[3], last.patch.value)
        IN  /\ last.err = ErrNone /\ last.after.kind = "text"
            /\ t = 0 => a = b
            /\ t # 0 => a = SubSeq(b, 1, t - 1) \o kv \o SubSeq(b, t + 1, Len(b))
            /\ (t # 0 /\ Len(kv) = 1) =>
                  /\ Len(a) = Len(b)
                  /\ \A i \in 1..Len(b) : i # t => a[i] = b[i]

\* C6 witness: the key occurs twice in the section and once in another
\* section; the patch has been applied and has changed the file.
C6_Witness ==
    /\ CfgReplaceAttempt /\ last.err = ErrNone
    /\ last.patch = Patch("replace", PtrHttpPort, <<"8080">>)
    /\ last.before.lines = << <<"[", "Http", "]">>,
                              <<" ", "Port", "=", "1">>,
                              <<"Port", " ", "=", " ", "6969">> >>
    /\ last.after.lines = << <<"[", "Http", "]">>,
                             <<"Port", " ", "=", " ", "8080">>,
                             <<"Port", " ", "=", " ", "6969">> >>

\* C7: applyCfgPatch rejects, without reading or writing the file, every
\* patch whose op is not replace and every patch whose path is not of the
\* form /section/key: a leading separator followed by exactly two segments.
C7_RejectsMalformed ==
    ( /\ last.key # NoKey /\ last.dialect = "cfg"
      /\ \/ last.patch.op # "replace"
         \/ ~(Len(last.patch.path) = 3 /\ last.patch.path[1] = "") )
    => ( /\ last.err \in {ErrOp, ErrCfgPath}
         /\ \A e \in io : e.key # last.key )

\* C8: a JSON replace of an existing top-level key succeeds and the document
\* written back differs from the one read in the value of that key only.
C8_ReplaceChangesOneKey ==
    ( /\ last.key # NoKey /\ last.dialect = "json"
      /\ last.before.kind = "json"
      /\ last.patch.op = "replace"
      /\ Len(last.patch.path) = 2 /\ last.patch.path[1] = ""
      /\ last.patch.path[2] \in DOMAIN last.before.doc )
    => ( /\ last.err = ErrNone
         /\ last.after.kind = "json"
         /\ DOMAIN last.after.doc = DOMAIN last.before.doc
         /\ last.after.doc[last.patch.path[2]] = last.patch.value
         /\ \A k \in DOMAIN last.before.doc :
               k # last.patch.path[2] => last.after.doc[k] = last.before.doc[k]
         /\ fs[Join(PathSpt, last.key)] = last.after )

\* C8 witness: /ip of a document with three keys has been replaced.
C8_Witness ==
    /\ last.patch = Patch("replace", PtrIp, VUser)
    /\ last.before = JsonFile(HttpDoc)
    /\ last.after = JsonFile([HttpDoc EXCEPT !["ip"] = VUser])
    /\ last.err = ErrNone

\* C9: a patch whose target starts with "/" fails, in entrypoint and in the
\* mod, whatever the suffix of the target, before any stat, read or write:
\* no file access is ever made on behalf of such a target.
C9_AbsoluteRejectedBeforeIO ==
    /\ \A e \in io : ~HasPrefixSlash(e.key)
    /\ \A l \in log : HasPrefixSlash(l.key) => l.err = ErrNotRelative
    /\ HasPrefixSlash(last.key) => (last.after = last.before /\ last.dialect = "none")

\* C9 witness: the mod has thrown on the absolute .cfg target, no file
\* having been accessed.
C9_Witness ==
    /\ engine = "mod" /\ pc = "thrown"
    /\ last.key = KAbsCfg /\ last.err = ErrNotRelative
    /\ io = {} /\ fs = fs0

SuffixRule ==
    (last.key # NoKey /\ ~HasPrefixSlash(last.key)) =>
        LET p == Join(PathSpt, last.key) IN
        /\ EndsWith(p, ".cfg") => last.dialect = "cfg"
        /\ EndsWith(p, ".json") => last.dialect = "json"
        /\ (~EndsWith(p, ".cfg") /\ ~EndsWith(p, ".json")) =>
              /\ last.err = ErrUnsupported
              /\ \A e \in io : e.key # last.key

\* C10 as claimed: in entrypoint and in the mod the patcher is chosen from
\* the suffix of the target: .cfg the key/value patcher, .json the JSON
\* patcher, anything else an unsupported-file error without file access.
C10_DialectBySuffix == SuffixRule

\* C10 as amended: the mod chooses the patcher from the suffix of the target
\* as claimed; entrypoint has the JSON patcher only and hands it every
\* relative target, whatever its suffix.
C10_DialectBySuffixInMod ==
    /\ engine = "mod" => SuffixRule
    /\ (engine = "go" /\ last.key # NoKey /\ ~HasPrefixSlash(last.key)) =>
          last.dialect = "json"

\* C10 witness: the mod has thrown the unsupported-file error on notes.txt
\* without accessing it.
C10_Witness ==
    /\ engine = "mod" /\ pc = "thrown"
    /\ last.key = KTxt /\ last.err = ErrUnsupported
    /\ \A e \in io : e.key # KTxt

(***************************************************************************)
(* entrypoint/main.go: initializeServer.                                   *)
(*                                                                         *)
(* Three goroutines: main, the subprocess goroutine (runCmd of the server  *)
(* under the execution scope ctx, then a send on 'complete') and the       *)
(* poller (one non-blocking receive from 'complete' and one http.Get per   *)
(* tick).  Time is counted in ticker periods; the timeout of the scope is  *)
(* Timeout periods and now = Timeout + 1 stands for every instant beyond   *)
(* it.  Any amount of time may pass between two steps of a goroutine.      *)
(***************************************************************************)
\* timeout := 120 * time.Second, in periods of the 1 s ticker (scaled down)
Timeout == 3

NilErr == "nil"
ErrTimedOut == "command timed out"
ErrKilled == "signal: killed"
ErrExit == "exit status 1"
ErrStart == "fork/exec: no such file or directory"

\* the error runCmd returns for each way the server process can end
RunErr(kind) ==
    CASE kind = "ok" -> NilErr
      [] kind = "fail" -> ErrExit
      [] kind = "killed" -> ErrKilled
      [] OTHER -> ErrStart

TimedOutAt_Never(t) == FALSE

\* time.Since(start) > timeout
TimedOutAt(t) == t > Timeout

Phase == IF now <= Timeout THEN "before" ELSE "after"

Goto(g, p) == gpc' = [gpc EXCEPT ![g] = p]

ExitRecord(kind) == [kind |-> kind, phase |-> Phase, saw |-> saw200, ctx |-> ctx]

\* cancel(): closes ctx.Done() unless the scope is already done
Cancel(c) == IF c = "live" THEN "cancelled" ELSE c

\* time passes; the ticker sends a tick unless one is still waiting
Tick ==
    /\ now <= Timeout \/ ~tick
    /\ now' = IF now <= Timeout THEN now + 1 ELSE now
    /\ tick' = TRUE
    /\ UNCHANGED <<gpc, complete, ctx, initErr, up, saw200, exited, initRet>>
    /\ UNCHANGED <<patchVars, procVars, installVars>>

\* the deadline of context.WithTimeout passes
CtxDeadline ==
    /\ ctx = "live" /\ now > Timeout
    /\ ctx' = "deadline"
    /\ UNCHANGED <<gpc, complete, initErr, now, tick, up, saw200, exited, initRet>>
    /\ UNCHANGED <<patchVars, procVars, installVars>>

\* runCmd starts the server, or fails to start it
SubStart ==
    /\ gpc.sub = "start"
    /\ \/ /\ ctx = "live"
          /\ Goto("sub", "running")
          /\ UNCHANGED <<initErr, exited>>
       \/ /\ initErr' = RunErr("nostart")
          /\ exited' = ExitRecord("nostart")
          /\ Goto("sub", "ran")
    /\ UNCHANGED <<complete, ctx, now, tick, up, saw200, initRet>>
    /\ UNCHANGED <<patchVars, procVars, installVars>>

\* the server starts to answer on its port
ServerUp ==
    /\ gpc.sub = "running" /\ ~up
    /\ up' = TRUE
    /\ UNCHANGED <<gpc, complete, ctx, initErr, now, tick, saw200, exited, initRet>>
    /\ UNCHANGED <<patchVars, procVars, installVars>>

\* the server exits by itself, with status 0 or not: _, err = runCmd(...)
SubExits ==
    /\ gpc.sub = "running"
    /\ \E kind \in {"ok", "fail"} :
        /\ initErr' = RunErr(kind)
        /\ exited' = ExitRecord(kind)
    /\ up' = FALSE
    /\ Goto("sub", "ran")
    /\ UNCHANGED <<complete, ctx, now, tick, saw200, initRet>>
    /\ UNCHANGED <<patchVars, procVars, installVars>>

\* the scope is done: the server is killed, and exits some time later
SubKilled ==
    /\ gpc.sub = "running" /\ ctx # "live"
    /\ initErr' = RunErr("killed")
    /\ exited' = ExitRecord("killed")
    /\ up' = FALSE
    /\ Goto("sub", "ran")
    /\ UNCHANGED <<complete, ctx, now, tick, saw200, initRet>>
    /\ UNCHANGED <<patchVars, procVars, installVars>>

\* complete <- true: handed to main if it waits in <-complete, buffered otherwise
SubSend ==
    /\ gpc.sub = "ran"
    /\ IF gpc.main = "parked"
       THEN /\ gpc' = [gpc EXCEPT !.sub = "sent", !.main = "check"]
            /\ UNCHANGED complete
       ELSE /\ Goto("sub", "sent")
            /\ complete' = complete + 1
    /\ UNCHANGED <<ctx, initErr, now, tick, up, saw200, exited, initRet>>
    /\ UNCHANGED <<patchVars, procVars, installVars>>

\* for range ticker.C
PollTick ==
    /\ gpc.poller = "wait" /\ tick
    /\ tick' = FALSE
    /\ Goto("poller", "isComplete")
    /\ UNCHANGED <<complete, ctx, initErr, now, up, saw200, exited, initRet>>
    /\ UNCHANGED <<patchVars, procVars, installVars>>

\* if isComplete() { break }: select { case <-complete: true; default: false }
PollIsComplete ==
    /\ gpc.poller = "isComplete"
    /\ IF complete > 0
       THEN complete' = complete - 1 /\ Goto("poller", "done")
       ELSE UNCHANGED complete /\ Goto("poller", "get")
    /\ UNCHANGED <<ctx, initErr, now, tick, up, saw200, exited, initRet>>
    /\ UNCHANGED <<patchVars, procVars, installVars>>

\* response, err := http.Get(...); on 200: cancel(); break; otherwise continue
PollGet ==
    /\ gpc.poller = "get"
    /\ \E ok \in (IF up THEN {TRUE, FALSE} ELSE {FALSE}) :
        IF ok
        THEN /\ ctx' = Cancel(ctx)
             /\ saw200' = IF saw200 = "no" THEN Phase ELSE saw200
             /\ Goto("poller", "done")
        ELSE /\ UNCHANGED <<ctx, saw200>>
             /\ Goto("poller", "wait")
    /\ UNCHANGED <<complete, initErr, now, tick, up, exited, initRet>>
    /\ UNCHANGED <<patchVars, procVars, installVars>>

MainRecv_NoWait ==
    /\ gpc.main = "recv"
    /\ Goto("main", "check")
    /\ UNCHANGED <<complete, ctx, initErr, now, tick, up, saw200, exited, initRet>>
    /\ UNCHANGED <<patchVars, procVars, installVars>>

\* <-complete
MainRecv ==
    /\ gpc.main = "recv"
    /\ IF complete > 0
       THEN complete' = complete - 1 /\ Goto("main", "check")
       ELSE UNCHANGED complete /\ Goto("main", "parked")
    /\ UNCHANGED <<ctx, initErr, now, tick, up, saw200, exited, initRet>>
    /\ UNCHANGED <<patchVars, procVars, installVars>>

\* if time.Since(start) > timeout { err = fmt.Errorf("command timed out") }
MainCheck ==
    /\ gpc.main = "check"
    /\ IF TimedOutAt(now)
       THEN initErr' = ErrTimedOut /\ Goto("main", "return")
       ELSE UNCHANGED initErr /\ Goto("main", "select")
    /\ UNCHANGED <<complete, ctx, now, tick, up, saw200, exited, initRet>>
    /\ UNCHANGED <<patchVars, procVars, installVars>>

\* select { case <-ctx.Done(): err = nil; default: }
MainSelect ==
    /\ gpc.main = "select"
    /\ initErr' = IF ctx # "live" THEN NilErr ELSE initErr
    /\ Goto("main", "return")
    /\ UNCHANGED <<complete, ctx, now, tick, up, saw200, exited, initRet>>
    /\ UNCHANGED <<patchVars, procVars, installVars>>

\* return err, and the deferred cancel()
MainReturn ==
    /\ gpc.main = "return"
    /\ initRet' = initErr
    /\ ctx' = Cancel(ctx)
    /\ Goto("main", "returned")
    /\ UNCHANGED <<complete, initErr, now, tick, up, saw200, exited>>
    /\ UNCHANGED <<patchVars, procVars, installVars>>

InitServer ==
    /\ gpc = [main |-> "recv", sub |-> "start", poller |-> "wait"]
    /\ complete = 0 /\ ctx = "live" /\ initErr = NilErr
    /\ now = 0 /\ tick = FALSE /\ up = FALSE /\ saw200 = "no"
    /\ exited = <<>> /\ initRet = "none"
    /\ PatchIdle /\ ProcIdle /\ InstallIdle

NextServer ==
    \/ Tick \/ CtxDeadline
    \/ SubStart \/ ServerUp \/ SubExits \/ SubKilled \/ SubSend
    \/ PollTick \/ PollIsComplete \/ PollGet
    \/ MainRecv \/ MainCheck \/ MainSelect \/ MainReturn

SpecServer == InitServer /\ [][NextServer]_vars

\* Every goroutine that can take a step eventually takes one, time passes,
\* and a killed server exits; the server need not exit by itself or come up.
FairServer ==
    /\ WF_vars(Tick) /\ WF_vars(CtxDeadline)
    /\ WF_vars(SubStart) /\ WF_vars(SubKilled) /\ WF_vars(SubSend)
    /\ WF_vars(PollTick) /\ WF_vars(PollIsComplete) /\ WF_vars(PollGet)
    /\ WF_vars(MainRecv) /\ WF_vars(MainCheck) /\ WF_vars(MainSelect)
    /\ WF_vars(MainReturn)

LiveServer == SpecServer /\ FairServer

(***************************************************************************)
(* Properties of initializeServer.                                         *)
(***************************************************************************)
Returned == gpc.main = "returned"
HasExited == exited # <<>>

\* C11: whenever the poller observed a 200 response before the timeout
\* bound, initializeServer returns success: neither the error of the killed
\* subprocess nor the timeout error, however late the subprocess exits.
C11_ReadyAfter200 ==
    (Returned /\ saw200 = "before") => initRet = NilErr

\* C12: if the subprocess exits before the poller has observed a 200
\* response and before the timeout, initializeServer returns a non-nil
\* error, for every way the subprocess can exit.
C12_ExitBeforeReadyIsCrashed ==
    (Returned /\ HasExited /\ exited.phase = "before" /\ exited.saw = "no"
        /\ exited.ctx = "live")
    => initRet # NilErr

\* C13: if no 200 response was observed before the timeout bound elapsed
\* and the subprocess was still running then, initializeServer returns the
\* timeout error: never success, never the error of the killed subprocess.
C13_TimeoutReturnsTimedOut ==
    (Returned /\ HasExited /\ exited.phase = "after" /\ saw200 # "before")
    => initRet = ErrTimedOut

C13_Witness ==
    /\ Returned /\ HasExited
    /\ exited.kind = "killed" /\ exited.ctx = "deadline" /\ saw200 = "no"
    /\ initRet = ErrTimedOut

\* C14: initializeServer always terminates: under every fair interleaving
\* of the three goroutines the main goroutine eventually returns.
C14_Terminates == <>Returned

(***************************************************************************)
(* entrypoint/main.go: main, preEntrypoint, entrypoint.                    *)
(*                                                                         *)
(* A command run through runCmd is its commandSlice; a uid:gid pair is the *)
(* tuple <<uid, gid>>.  The commands that would fail (usermod, groupmod,   *)
(* chown, creating a directory) are chosen freely at each run.             *)
(***************************************************************************)
\* osuser.Lookup(userName) fails
NoUser == [Uid |-> -1, Gid |-> -1]
ZeroUser == [Uid |-> 0, Gid |-> 0]
SptAccount == [Uid |-> 1000, Gid |-> 1000]
OtherAccount == [Uid |-> 2000, Gid |-> 2000]

ErrRefuse == "refusing to update spt user to uid 0"
ErrLookup == "user: unknown user spt"
ErrAtoi == "strconv.Atoi: invalid syntax"
ErrMkdir == "mkdir: permission denied"
ErrExecutable == "os.Executable failed"
ErrUnknown(c) ==
    CASE c = "serve" -> "unknown command: serve"
      [] OTHER -> "unknown command"
\* the error of a failed call of entrypoint, named after the call
ErrStage(name) == name
\* the error of command.Run() for each exit code of the command
ExitError(code) ==
    CASE code = 0 -> NilErr
      [] code = 1 -> ErrExit
      [] code = 2 -> "exit status 2"
      [] OTHER -> "exit status 137"

\* strconv.Atoi and strconv.Itoa on the numerals used here
Atoi(str) ==
    CASE str = "0" -> [ok |-> TRUE, v |-> 0]
      [] str = "1000" -> [ok |-> TRUE, v |-> 1000]
      [] str = "2000" -> [ok |-> TRUE, v |-> 2000]
      [] OTHER -> [ok |-> FALSE, v |-> 0]

Itoa(n) ==
    CASE n = 0 -> "0"
      [] n = 1000 -> "1000"
      [] OTHER -> "2000"

getIntFromEnv(envValStr, defaultValue) ==
    Atoi(IF envValStr = "" THEN Itoa(defaultValue) ELSE envValStr)

getUserFromEnv(spt, e) ==
    IF spt = NoUser
    THEN [err |-> ErrLookup, user |-> ZeroUser]
    ELSE LET gid == getIntFromEnv(e.GID, spt.Gid)
             uid == getIntFromEnv(e.UID, spt.Uid)
         IN  IF ~gid.ok \/ ~uid.ok
             THEN [err |-> ErrAtoi, user |-> ZeroUser]
             ELSE [err |-> NilErr, user |-> [Uid |-> uid.v, Gid |-> gid.v]]

updateNonRootUser_NoRefusal(u, spt, fails) ==
    [err |-> NilErr, cmds |-> <<<<"usermod", "-u", Itoa(u.Uid), "spt">>>>]

updateNonRootUser(u, spt, fails) ==
    IF u.Uid = 0
    THEN [err |-> ErrRefuse, cmds |-> <<>>]
    ELSE IF spt = NoUser
    THEN [err |-> ErrLookup, cmds |-> <<>>]
    ELSE LET c1 == IF u.Uid # spt.Uid
                   THEN <<<<"usermod", "-u", Itoa(u.Uid), "spt">>>> ELSE <<>>
             c2 == IF u.Gid # spt.Gid
                   THEN <<<<"groupmod", "-g", Itoa(u.Gid), "spt">>>> ELSE <<>>
         IN  IF c1 # <<>> /\ "usermod" \in fails
             THEN [err |-> ErrExit, cmds |-> c1]
             ELSE IF c2 # <<>> /\ "groupmod" \in fails
             THEN [err |-> ErrExit, cmds |-> c1 \o c2]
             ELSE [err |-> NilErr, cmds |-> c1 \o c2]

setDirectoryOwner_DataOnly(owner, fails) ==
    [err |-> NilErr, cmds |-> <<<<"chown", "-R", <<owner.Uid, owner.Gid>>, "data">>>>]

\* setDirectoryOwner(user, pathData, pathSpt)
setDirectoryOwner(owner, fails) ==
    LET chown(path) == <<"chown", "-R", <<owner.Uid, owner.Gid>>, path>> IN
    IF "mkdir" \in fails
    THEN [err |-> ErrMkdir, cmds |-> <<>>]
    ELSE IF "chown data" \in fails
    THEN [err |-> ErrExit, cmds |-> <<chown("data")>>]
    ELSE IF "chown spt" \in fails
    THEN [err |-> ErrExit, cmds |-> <<chown("data"), chown("spt")>>]
    ELSE [err |-> NilErr, cmds |-> <<chown("data"), chown("spt")>>]

FailPoints == {"usermod", "groupmod", "mkdir", "chown data", "chown spt"}

NeedsReconcile_Always(current) == TRUE

\* if getCurrentUser().Uid == 0
NeedsReconcile(current) == current.Uid = 0

\* preEntrypoint up to os.Executable(): the user of the child, the commands run
preReconcile(current, spt, e, fails) ==
    IF ~NeedsReconcile(current)
    THEN [err |-> NilErr, cmds |-> <<>>, user |-> current]
    ELSE LET g == getUserFromEnv(spt, e) IN
         IF g.err # NilErr
         THEN [err |-> g.err, cmds |-> <<>>, user |-> g.user]
         ELSE LET u == updateNonRootUser(g.user, spt, fails) IN
              IF u.err # NilErr
              THEN [err |-> u.err, cmds |-> u.cmds, user |-> g.user]
              ELSE LET d == setDirectoryOwner(g.user, fails) IN
                   [err |-> d.err, cmds |-> u.cmds \o d.cmds, user |-> g.user]

UsesGosu_Never(u, current) == FALSE

\* runCmd: if opts.User != nil && *opts.User != getCurrentUser()
UsesGosu(u, current) == u # current

\* the command line runCmd runs for [executable, "entrypoint"]
ChildCommand(u, current) ==
    IF UsesGosu(u, current)
    THEN <<"gosu", <<u.Uid, u.Gid>>, "executable", "entrypoint">>
    ELSE <<"executable", "entrypoint">>

\* the identity of the process a command line starts
ChildIdentity(commandSlice, current) ==
    IF commandSlice[1] = "gosu"
    THEN [Uid |-> commandSlice[2][1], Gid |-> commandSlice[2][2]]
    ELSE current

ExitCodeOf_Zero(e) == 0

\* code := 0; if err != nil { code = 1 }
ExitCodeOf(e) == IF e = NilErr THEN 0 ELSE 1

Info(msg) == [level |-> "INFO", msg |-> msg]
Error(msg) == [level |-> "ERROR", msg |-> msg]
Printed(msg) == [level |-> "", msg |-> msg]

\* what main writes to standard output before os.Exit(code)
LogError(out, e) == IF e = NilErr THEN out ELSE Append(out, Error(e))

\* the calls of entrypoint that can fail, in the order of the code
StageOrder ==
    <<"createDirectories", "installMods", "initializeServer",
      "getConfigPatchesFromEnv", "applyConfigPatches",
      "symlinkPersistentData", "runServer">>

MayStart_Always(st) == TRUE

\* if err != nil { return err } after every call
MayStart(st) == IF st = <<>> THEN TRUE ELSE st[Len(st)].ok

EntrypointDone(st) ==
    IF st = <<>> THEN FALSE
    ELSE IF st[Len(st)].ok THEN Len(st) = Len(StageOrder) ELSE TRUE

EntrypointErr(st) ==
    IF st[Len(st)].ok THEN NilErr ELSE ErrStage(st[Len(st)].name)

NoChild == [state |-> "none", user |-> ZeroUser, cmd |-> <<>>, code |-> -1]

\* the exit codes of a child that does not end through os.Exit of main:
\* 2 for a Go panic, 137 for a kill
AbnormalCodes == {2, 137}

\* args := os.Args[1:]; if len(args) == 0 { args = append(args, "pre-entrypoint") }
Subcommand(a) == IF a = <<>> THEN "pre-entrypoint" ELSE a[1]

\* the process that is running entrypoint(), if any
Runner ==
    IF ppc = "entrypoint" THEN "self"
    ELSE IF child.state = "running" THEN "child" ELSE "none"

\* main: switch args[0]
MainDispatch ==
    /\ ppc = "main"
    /\ LET c == Subcommand(argv) IN
        CASE c = "entrypoint" ->
                /\ ppc' = "entrypoint"
                /\ UNCHANGED <<procErr, stdout>>
          [] c = "pre-entrypoint" ->
                /\ ppc' = "pre"
                /\ stdout' = Append(stdout, Info("pre-entrypoint"))
                /\ UNCHANGED procErr
          [] c = "version" ->
                /\ ppc' = "exit"
                /\ stdout' = Append(stdout, Printed("version"))
                /\ procErr' = NilErr
          [] OTHER ->
                /\ ppc' = "exit"
                /\ procErr' = ErrUnknown(c)
                /\ UNCHANGED stdout
    /\ UNCHANGED <<argv, curUser, env, sptUser, cmds, child, stages, exitCode>>
    /\ UNCHANGED <<patchVars, srvVars, installVars>>

\* preEntrypoint, lines 608-626
PreReconcile ==
    /\ ppc = "pre"
    /\ \E fails \in SUBSET FailPoints :
        LET r == preReconcile(curUser, sptUser, env, fails) IN
        /\ cmds' = cmds \o r.cmds
        /\ IF r.err # NilErr
           THEN /\ procErr' = r.err
                /\ ppc' = "exit"
                /\ UNCHANGED child
           ELSE /\ child' = [NoChild EXCEPT !.user = r.user]
                /\ ppc' = "spawn"
                /\ UNCHANGED procErr
    /\ UNCHANGED <<argv, curUser, env, sptUser, stages, stdout, exitCode>>
    /\ UNCHANGED <<patchVars, srvVars, installVars>>

\* preEntrypoint, lines 628-633: os.Executable, then runCmd starts the child
PreSpawn ==
    /\ ppc = "spawn"
    /\ \/ /\ procErr' = ErrExecutable
          /\ ppc' = "exit"
          /\ UNCHANGED <<cmds, child>>
       \/ LET c == ChildCommand(child.user, curUser) IN
          /\ cmds' = Append(cmds, c)
          /\ \E started \in BOOLEAN :
                child' = IF started
                         THEN [state |-> "running", cmd |-> c, code |-> -1,
                               user |-> ChildIdentity(c, curUser)]
                         ELSE [state |-> "failed", cmd |-> c, code |-> 1,
                               user |-> child.user]
          /\ ppc' = "wait"
          /\ UNCHANGED procErr
    /\ UNCHANGED <<argv, curUser, env, sptUser, stages, stdout, exitCode>>
    /\ UNCHANGED <<patchVars, srvVars, installVars>>

\* entrypoint: the next call, which succeeds or fails
EntrypointStage ==
    /\ Runner # "none"
    /\ Len(stages) < Len(StageOrder)
    /\ MayStart(stages)
    /\ \E ok \in BOOLEAN :
        stages' = Append(stages, [name |-> StageOrder[Len(stages) + 1], ok |-> ok])
    /\ UNCHANGED <<argv, curUser, env, sptUser, ppc, cmds, child, procErr, stdout,
                   exitCode>>
    /\ UNCHANGED <<patchVars, srvVars, installVars>>

\* entrypoint returns to main of the process started
EntrypointReturn ==
    /\ ppc = "entrypoint"
    /\ EntrypointDone(stages)
    /\ procErr' = EntrypointErr(stages)
    /\ ppc' = "exit"
    /\ UNCHANGED <<argv, curUser, env, sptUser, cmds, child, stages, stdout, exitCode>>
    /\ UNCHANGED <<patchVars, srvVars, installVars>>

\* entrypoint returns to main of the child, which logs the error and exits
ChildExit ==
    /\ child.state = "running"
    /\ EntrypointDone(stages)
    /\ LET e == EntrypointErr(stages) IN
        /\ child' = [child EXCEPT !.state = "exited", !.code = ExitCodeOf(e)]
        /\ stdout' = LogError(stdout, e)
    /\ UNCHANGED <<argv, curUser, env, sptUser, ppc, cmds, stages, procErr, exitCode>>
    /\ UNCHANGED <<patchVars, srvVars, installVars>>

\* the child panics or is killed
ChildDies ==
    /\ child.state = "running"
    /\ \E code \in AbnormalCodes :
        child' = [child EXCEPT !.state = "exited", !.code = code]
    /\ UNCHANGED <<argv, curUser, env, sptUser, ppc, cmds, stages, procErr, stdout,
                   exitCode>>
    /\ UNCHANGED <<patchVars, srvVars, installVars>>

\* preEntrypoint, lines 633-634: runCmd returns the error of command.Run()
PreWait ==
    /\ ppc = "wait"
    /\ child.state \in {"exited", "failed"}
    /\ procErr' = ExitError(child.code)
    /\ ppc' = "exit"
    /\ UNCHANGED <<argv, curUser, env, sptUser, cmds, child, stages, stdout, exitCode>>
    /\ UNCHANGED <<patchVars, srvVars, installVars>>

\* main: the exit code, logger.Error(err.Error()), os.Exit(code)
MainExit ==
    /\ ppc = "exit"
    /\ exitCode' = ExitCodeOf(procErr)
    /\ stdout' = LogError(stdout, procErr)
    /\ ppc' = "exited"
    /\ UNCHANGED <<argv, curUser, env, sptUser, cmds, child, stages, procErr>>
    /\ UNCHANGED <<patchVars, srvVars, installVars>>

Argvs == {<<>>, <<"entrypoint">>, <<"pre-entrypoint">>, <<"version">>, <<"serve">>}
EnvUids == {"", "0", "1000", "2000", "abc"}
EnvGids == {"", "0", "2000", "abc"}

InitMain ==
    /\ argv \in Argvs
    /\ curUser \in {ZeroUser, SptAccount, OtherAccount}
    /\ sptUser \in {SptAccount, NoUser}
    /\ env \in [UID : EnvUids, GID : EnvGids]
    /\ ppc = "main" /\ cmds = <<>> /\ child = NoChild /\ stages = <<>>
    /\ procErr = NilErr /\ stdout = <<>> /\ exitCode = -1
    /\ PatchIdle /\ SrvIdle /\ InstallIdle

NextMain ==
    \/ MainDispatch \/ PreReconcile \/ PreSpawn \/ PreWait \/ MainExit
    \/ EntrypointStage \/ EntrypointReturn \/ ChildExit \/ ChildDies

SpecMain == InitMain /\ [][NextMain]_vars

(***************************************************************************)
(* Properties of main, preEntrypoint and entrypoint.                       *)
(***************************************************************************)
\* preEntrypoint was entered: its first statement logs "pre-entrypoint"
RanPre == \E i \in 1..Len(stdout) : stdout[i] = Info("pre-entrypoint")
IsRoot == curUser.Uid = 0
ChildRan == child.state \in {"running", "exited"}
AllOk(st) == \A i \in 1..Len(st) : st[i].ok
KnownCommands == {"entrypoint", "pre-entrypoint", "version"}

\* C15: the calls of entrypoint are started in the fixed order of
\* StageOrder, each only after all the earlier ones succeeded; after the
\* first failure no later one (in particular runServer) is started, and
\* entrypoint succeeds only if all of them did.
C15_StagesInOrder ==
    /\ Len(stages) <= Len(StageOrder)
    /\ \A i \in 1..Len(stages) :
        /\ stages[i].name = StageOrder[i]
        /\ i > 1 => stages[i - 1].ok
    /\ (child.state = "exited" /\ child.code = 0)
        => (Len(stages) = Len(StageOrder) /\ AllOk(stages))
    /\ (Subcommand(argv) = "entrypoint" /\ ppc = "exited" /\ exitCode = 0)
        => (Len(stages) = Len(StageOrder) /\ AllOk(stages))

C15_Witness ==
    /\ Len(stages) = 3 /\ ~stages[3].ok
    /\ child.state = "exited" /\ child.code = 1
    /\ ppc = "exited"

\* C16: as root with a desired uid of 0, preEntrypoint fails with the
\* refusal error before any usermod, groupmod or chown was run and before
\* the child is spawned.
C16_RootUidZeroRefused ==
    (RanPre /\ IsRoot /\ sptUser # NoUser /\ env.UID = "0" /\ env.GID # "abc"
        /\ ppc # "pre")
    => (procErr = ErrRefuse /\ cmds = <<>> /\ child = NoChild /\ stages = <<>>)

C16_Witness ==
    /\ RanPre /\ IsRoot /\ sptUser # NoUser /\ env.UID = "0" /\ env.GID = "2000"
    /\ ppc = "exited" /\ exitCode = 1
    /\ stdout[Len(stdout)] = Error(ErrRefuse)

\* C17: in an execution started through pre-entrypoint the core entrypoint
\* only runs in the child, and the child never has uid 0: as root it has
\* the desired identity, otherwise the current one.
C17_ChildNeverRoot ==
    RanPre =>
        /\ ppc # "entrypoint"
        /\ stages # <<>> => ChildRan
        /\ ChildRan =>
            /\ child.user.Uid # 0
            /\ IF IsRoot
               THEN child.user = [Uid |-> getIntFromEnv(env.UID, sptUser.Uid).v,
                                  Gid |-> getIntFromEnv(env.GID, sptUser.Gid).v]
               ELSE child.user = curUser

C17_Witness ==
    /\ RanPre /\ IsRoot /\ env.UID = "2000" /\ env.GID = "0"
    /\ child.state = "running" /\ child.user = [Uid |-> 2000, Gid |-> 0]
    /\ stages # <<>>

\* C18: when pre-entrypoint has run the core entrypoint as a child, its
\* exit code equals the exit code of the child.
C18_ExitCodeIsChilds ==
    (ppc = "exited" /\ child.state = "exited") => exitCode = child.code

\* C19 (as stated): when the current identity is not root, pre-entrypoint
\* runs no command at all: no reconciliation, no chown and no re-exec.
C19_NoReExecWhenNonRoot ==
    (RanPre /\ ~IsRoot) => (cmds = <<>> /\ child = NoChild)

\* C19: when the current identity is not root, pre-entrypoint runs no
\* usermod, groupmod, chown or gosu and never fails on UID or GID; the only
\* command it runs is the executable itself with "entrypoint", as a child
\* under the current identity.
C19_NonRootSpawnsChildAsIs ==
    (RanPre /\ ~IsRoot) =>
        /\ \A i \in 1..Len(cmds) : cmds[i] = <<"executable", "entrypoint">>
        /\ ChildRan => child.user = curUser
        /\ procErr \notin {ErrRefuse, ErrAtoi, ErrLookup}
        /\ ppc # "entrypoint"

C19_Witness ==
    /\ RanPre /\ ~IsRoot /\ env.UID = "0" /\ env.GID = "abc"
    /\ cmds = <<<<"executable", "entrypoint">>>>
    /\ child.state = "exited" /\ child.code = 0 /\ child.user = curUser
    /\ ppc = "exited" /\ exitCode = 0

\* C20: the process exits with 0 if and only if the selected subcommand
\* returned no error and with 1 otherwise, after the error message was
\* written to standard output; without argument the subcommand is
\* pre-entrypoint, and an unknown subcommand fails with code 1.
C20_ExitCode ==
    ppc = "exited" =>
        /\ exitCode \in {0, 1}
        /\ exitCode = 0 <=> procErr = NilErr
        /\ procErr # NilErr => (stdout # <<>> /\ stdout[Len(stdout)] = Error(procErr))
        /\ procErr = NilErr => \A i \in 1..Len(stdout) : stdout[i].level # "ERROR"
        /\ argv = <<>> => RanPre
        /\ (argv # <<>> /\ argv[1] \notin KnownCommands) => exitCode = 1

C20_Witness ==
    /\ argv = <<"serve">> /\ ppc = "exited" /\ exitCode = 1
    /\ stdout = <<Error(ErrUnknown("serve"))>>

(***************************************************************************)
(* More properties of initializeServer.                                    *)
(***************************************************************************)
MainHasSignal == gpc.main \notin {"recv", "parked"}

\* C29: initializeServer never returns while the first-launch subprocess is
\* still running: whatever the outcome, runCmd has returned and its
\* completion signal was sent before the return.
C29_ReturnsAfterExit ==
    Returned => (gpc.sub = "sent" /\ HasExited /\ ~up)

C29_Witness ==
    /\ Returned /\ initRet = NilErr /\ saw200 = "before"
    /\ exited.kind = "killed" /\ gpc.sub = "sent"

\* C30: once the main goroutine has taken the completion signal, the poller
\* issues no further probe: it never again passes from isComplete() to
\* http.Get.
C30_PollerStopsAtCompletion ==
    [][MainHasSignal => ~(gpc.poller = "isComplete" /\ gpc'.poller = "get")]_vars

(***************************************************************************)
(* MergeDataDirs (README.md, helper-library variant of the entrypoint).    *)
(***************************************************************************)
MaxLists == 2
MaxDirs == 2

ProfilesDir == "user/profiles"
DataDirNames == {ProfilesDir, "user/mods", "BepInEx/config"}

\* sequences over S of length at most n
SeqsUpTo(S, n) == UNION {[1..k -> S] : k \in 0..n}

RECURSIVE MergeDirList(_, _)
MergeDirList_NoExists(acc, list) ==
    [final |-> acc.final \o list, exists |-> acc.exists \cup Range(list)]

\* for _, path := range list { if exists[path] { continue }; append; mark }
MergeDirList(acc, list) ==
    IF list = <<>> THEN acc
    ELSE LET path == Head(list) IN
         IF path \in acc.exists
         THEN MergeDirList(acc, Tail(list))
         ELSE MergeDirList([final |-> Append(acc.final, path),
                            exists |-> acc.exists \cup {path}], Tail(list))

RECURSIVE MergeDirLists(_, _)
\* for _, list := range lists
MergeDirLists(acc, lists) ==
    IF lists = <<>> THEN acc
    ELSE MergeDirLists(MergeDirList(acc, Head(lists)), Tail(lists))

MergeDataDirs(lists) == MergeDirLists([final |-> <<>>, exists |-> {}], lists).final

\* Entrypoint: MergeDataDirs([]string{"user/profiles"}, config.DataDirs)
EntrypointDataDirs(dataDirs) == <<<<ProfilesDir>>, dataDirs>>

\* MergeDataDirs called with any lists
MergeDataDirsCall ==
    /\ ipc = "dirs" /\ input.by = "any"
    /\ result' = MergeDataDirs(input.lists)
    /\ ipc' = "merged"
    /\ UNCHANGED <<input, avail, cache, tmp, disk, hist>>
    /\ UNCHANGED <<patchVars, srvVars, procVars>>

\* MergeDataDirs as called by Entrypoint with DATA_DIRS
EntrypointMergeDataDirs ==
    /\ ipc = "dirs" /\ input.by = "Entrypoint"
    /\ result' = MergeDataDirs(input.lists)
    /\ ipc' = "merged"
    /\ UNCHANGED <<input, avail, cache, tmp, disk, hist>>
    /\ UNCHANGED <<patchVars, srvVars, procVars>>

InitDirs ==
    /\ ipc = "dirs"
    /\ \/ \E ls \in SeqsUpTo(SeqsUpTo(DataDirNames, MaxDirs), MaxLists) :
            input = [by |-> "any", lists |-> ls]
       \/ \E d \in SeqsUpTo(DataDirNames, MaxDirs) :
            input = [by |-> "Entrypoint", lists |-> EntrypointDataDirs(d)]
    /\ avail = {} /\ cache = {} /\ tmp = {} /\ disk = <<>> /\ hist = <<>>
    /\ result = <<>>
    /\ PatchIdle /\ SrvIdle /\ ProcIdle

SpecDirs == InitDirs /\ [][MergeDataDirsCall \/ EntrypointMergeDataDirs]_vars

RECURSIVE FlatDirs(_)
FlatDirs(lists) == IF lists = <<>> THEN <<>> ELSE Head(lists) \o FlatDirs(Tail(lists))

FirstAt(sq, x) == CHOOSE i \in 1..Len(sq) : sq[i] = x /\ \A j \in 1..(i - 1) : sq[j] # x

\* C27: MergeDataDirs returns a list without duplicates holding exactly the
\* elements of the input lists, ordered by first occurrence across the
\* inputs; as called by Entrypoint it has 'user/profiles' first.
C27_MergeDataDirsDedup ==
    ipc = "merged" =>
        LET flat == FlatDirs(input.lists) IN
        /\ \A i, j \in 1..Len(result) : result[i] = result[j] => i = j
        /\ Range(result) = Range(flat)
        /\ \A i, j \in 1..Len(result) :
            i < j => FirstAt(flat, result[i]) < FirstAt(flat, result[j])
        /\ input.by = "Entrypoint" => (result # <<>> /\ result[1] = ProfilesDir)

C27_Witness ==
    /\ ipc = "merged" /\ input.by = "Entrypoint"
    /\ input.lists[2] = <<"user/mods", ProfilesDir>>
    /\ result = <<ProfilesDir, "user/mods">>

(***************************************************************************)
(* FindPatchFiles (README.md, helper-library variant of the entrypoint).   *)
(*                                                                         *)
(* A version string is a record: a valid semantic version holds its three  *)
(* numbers, any other string (a branch name) is not valid.  The patch file *)
(* spt-<v>.patch is identified with its version v.                         *)
(***************************************************************************)
SemVer(a, b, c) == [valid |-> TRUE, num |-> <<a, b, c>>, text |-> ""]
NotSemVer(t) == [valid |-> FALSE, num |-> <<0, 0, 0>>, text |-> t]

V_3_9_0 == SemVer(3, 9, 0)
V_3_10_0 == SemVer(3, 10, 0)
V_3_10_1 == SemVer(3, 10, 1)
V_main == NotSemVer("main")

Versions == {V_3_9_0, V_3_10_0, V_3_10_1, V_main}

\* order of two tuples of numbers: -1, 0 or +1
CompareNums(x, y) ==
    IF x = y THEN 0
    ELSE LET i == CHOOSE k \in 1..Len(x) :
                    x[k] # y[k] /\ \A j \in 1..(k - 1) : x[j] = y[j]
         IN  IF x[i] < y[i] THEN -1 ELSE 1

\* semver.Compare: an invalid version is less than a valid one and equal to
\* any other invalid one
Compare(v, w) ==
    IF ~v.valid /\ ~w.valid THEN 0
    ELSE IF ~v.valid THEN -1
    ELSE IF ~w.valid THEN 1
    ELSE CompareNums(v.num, w.num)

RECURSIVE SortVersions(_)
\* semver.Sort: ascending
SortVersions(S) ==
    IF S = {} THEN <<>>
    ELSE LET m == CHOOSE x \in S : \A y \in S : Compare(x, y) <= 0
         IN  <<m>> \o SortVersions(S \ {m})

\* if semver.Compare(semVersion, semPatchVersion) == 1 { continue }
Skipped(version, patchVersion) == Compare(version, patchVersion) = 1

\* the patch files kept, sorted by version
FindPatchFiles(version, allPatchFiles) ==
    SortVersions({f \in allPatchFiles : ~Skipped(version, f)})

FindPatchFilesCall ==
    /\ ipc = "find"
    /\ result' = FindPatchFiles(input.version, avail)
    /\ ipc' = "found"
    /\ UNCHANGED <<input, avail, cache, tmp, disk, hist>>
    /\ UNCHANGED <<patchVars, srvVars, procVars>>

InitPatchFiles ==
    /\ ipc = "find"
    /\ avail \in SUBSET Versions
    /\ \E v \in Versions : input = [version |-> v]
    /\ cache = {} /\ tmp = {} /\ disk = <<>> /\ hist = <<>> /\ result = <<>>
    /\ PatchIdle /\ SrvIdle /\ ProcIdle

SpecPatchFiles == InitPatchFiles /\ [][FindPatchFilesCall]_vars

\* C25: FindPatchFiles(version) returns exactly the available patch files
\* whose version is less than or equal to the pinned version, in ascending
\* order of version.
\* Stated for version strings that are semantic versions.
C25_PatchesUpToVersion ==
    (ipc = "found" /\ input.version.valid /\ \A f \in avail : f.valid) =>
        /\ Range(result) = {f \in avail : Compare(f, input.version) <= 0}
        /\ \A i, j \in 1..Len(result) : i < j => Compare(result[i], result[j]) <= 0
        /\ Len(result) = Cardinality(Range(result))

(***************************************************************************)
(* InstallSpt (README.md, helper-library variant): the build through the   *)
(* cache.  helper.CacheFile is the PathCache of the specification.         *)
(***************************************************************************)
MaxCalls == 2

\* key := fmt.Sprintf("spt-%s", version)
SptKey(version) == [kind |-> "spt", name |-> version]

NoContent == [of |-> "nothing"]
HasKey(c, key) == \E e \in c : e.key = key
EntryOf(c, key) == CHOOSE e \in c : e.key = key

\* PathCache.ensure(key, dest, populate): an existing entry is materialized;
\* otherwise populate runs, and only its success is promoted under the key.
\* p is what populate does when it runs: its error and what it produces.
CacheFile(c, key, p) ==
    IF HasKey(c, key)
    THEN [cache |-> c, err |-> NilErr, ran |-> FALSE,
          content |-> EntryOf(c, key).content]
    ELSE IF p.err # NilErr
    THEN [cache |-> c, err |-> p.err, ran |-> TRUE, content |-> NoContent]
    ELSE [cache |-> c \cup {[key |-> key, content |-> p.content]},
          err |-> NilErr, ran |-> TRUE, content |-> p.content]

\* one command of the build: its name and the version or patch it names
Command(name, arg) == [name |-> name, arg |-> arg]
NoArg == NotSemVer("")

\* the commands of the build, in order
BuildCommands(version, patchFiles) ==
    <<Command("git clone", NoArg), Command("git checkout", version)>>
    \o [i \in 1..Len(patchFiles) |-> Command("git apply", patchFiles[i])]
    \o <<Command("git lfs pull", NoArg), Command("npm install", NoArg),
         Command("npm run build:release", NoArg), Command("mv", NoArg)>>

RunCommands_NoAbort(commands, failAt) == commands
\* for _, command := range commands { ...; if err != nil { return err } }:
\* the commands that are run when the failAt-th fails (0: none fails)
RunCommands(commands, failAt) ==
    IF failAt \in 1..Len(commands) THEN SubSeq(commands, 1, failAt) ELSE commands

\* the populate callback of InstallSpt; failAt = 0: no command fails
BuildSpt(version, allPatchFiles, failAt) ==
    LET patchFiles == FindPatchFiles(version, allPatchFiles)
        commands == BuildCommands(version, patchFiles)
    IN  IF failAt \in 1..Len(commands)
        THEN [err |-> commands[failAt].name, content |-> NoContent,
              commands |-> RunCommands(commands, failAt)]
        ELSE [err |-> NilErr,
              content |-> [of |-> "spt", version |-> version, patches |-> patchFiles],
              commands |-> RunCommands(commands, failAt)]

\* InstallSpt(ctx, version), one call per start of the container
InstallSptCall ==
    /\ ipc = "build" /\ Len(hist) < MaxCalls
    /\ \E version \in Versions, failAt \in 0..(Cardinality(Versions) + 6) :
        LET r == CacheFile(cache, SptKey(version), BuildSpt(version, avail, failAt)) IN
        /\ cache' = r.cache
        /\ hist' = Append(hist, [version |-> version, key |-> SptKey(version),
                                 selected |-> FindPatchFiles(version, avail),
                                 ran |-> r.ran, err |-> r.err, content |-> r.content])
    /\ UNCHANGED <<ipc, input, avail, tmp, disk, result>>
    /\ UNCHANGED <<patchVars, srvVars, procVars>>

\* a new image is started on the same cache volume: one more patch file
ImageUpgrade ==
    /\ ipc = "build" /\ hist # <<>> /\ Len(hist) < MaxCalls
    /\ \E f \in Versions \ avail : avail' = avail \cup {f}
    /\ UNCHANGED <<ipc, input, cache, tmp, disk, hist, result>>
    /\ UNCHANGED <<patchVars, srvVars, procVars>>

InitBuild ==
    /\ ipc = "build"
    /\ avail \in SUBSET Versions
    /\ cache = {} /\ hist = <<>>
    /\ input = <<>> /\ tmp = {} /\ disk = <<>> /\ result = <<>>
    /\ PatchIdle /\ SrvIdle /\ ProcIdle

SpecBuild == InitBuild /\ [][InstallSptCall \/ ImageUpgrade]_vars

\* C24: two builds of the same version with different selected patch sets
\* never use the same cache key, and an install is never served from an
\* entry built with another patch set than the one selected for it.
C24_KeyCoversPatchSet ==
    /\ \A i, j \in 1..Len(hist) :
        (hist[i].version = hist[j].version /\ hist[i].selected # hist[j].selected)
        => hist[i].key # hist[j].key
    /\ \A i \in 1..Len(hist) :
        hist[i].err = NilErr => hist[i].content.patches = hist[i].selected

(***************************************************************************)
(* Api.InstallSpt (README.md, Api variant): the cache is the directory     *)
(* cache/, one subdirectory per version, built in cache/.tmp.               *)
(***************************************************************************)
MaxApiCalls == 3

ApiVersions == {V_3_9_0, V_3_10_0}

\* cachePath := filepath.Join(api.Directories["cache"], version)
CachePath(version) == [kind |-> "cache", name |-> version]
\* tmpPath := filepath.Join(api.Directories["cache"], ".tmp")
TmpPath == [kind |-> "cache", name |-> NotSemVer(".tmp")]

SptPatch == NotSemVer("spt.patch")
BuiltEntry(version) ==
    [key |-> CachePath(version),
     content |-> [of |-> "spt", version |-> version, patches |-> <<SptPatch>>]]
TmpEntry(version) ==
    [key |-> TmpPath,
     content |-> [of |-> "partial", version |-> version, patches |-> <<>>]]

\* the steps of a build that can fail, in order
ApiSteps ==
    <<"clear cache", "lstat spt.patch", "git clone", "git checkout", "git apply",
      "git lfs pull", "npm install", "npm run build:release", "mv",
      "remove .tmp", "cp">>
ApiCommands == {ApiSteps[i] : i \in 3..9}

ClearCache_Keep(c) == c
\* subpaths := api.ListDir(cache); api.RemovePaths(subpaths...)
ClearCache(c) == {}

\* the branch "if !exists": git clone refuses a tmpPath that is there
ApiBuild(c, version, failAt) ==
    LET c1 == ClearCache(c) IN
    IF failAt = 1 THEN [cache |-> c, err |-> ApiSteps[1], built |-> FALSE]
    ELSE IF failAt = 2 THEN [cache |-> c1, err |-> ApiSteps[2], built |-> FALSE]
    ELSE IF failAt = 3 \/ HasKey(c1, TmpPath)
    THEN [cache |-> c1, err |-> ApiSteps[3], built |-> FALSE]
    ELSE IF failAt \in 4..9
    THEN [cache |-> c1 \cup {TmpEntry(version)}, err |-> ApiSteps[failAt],
          built |-> FALSE]
    ELSE IF failAt = 10
    THEN [cache |-> c1 \cup {TmpEntry(version), BuiltEntry(version)},
          err |-> ApiSteps[10], built |-> TRUE]
    ELSE [cache |-> c1 \cup {BuiltEntry(version)}, err |-> NilErr, built |-> TRUE]

ApiInstallSpt(c, version, failAt) ==
    LET exists == HasKey(c, CachePath(version))
        b == IF exists THEN [cache |-> c, err |-> NilErr, built |-> FALSE]
             ELSE ApiBuild(c, version, failAt)
    IN  [cache |-> b.cache, ran |-> ~exists, built |-> b.built,
         err |-> IF b.err # NilErr THEN b.err
                 ELSE IF failAt = 11 THEN ApiSteps[11] ELSE NilErr]

\* one start of the container: Api.InstallSpt(version)
ApiInstallSptCall ==
    /\ ipc = "api" /\ Len(hist) < MaxApiCalls
    /\ \E version \in ApiVersions, failAt \in 0..Len(ApiSteps) :
        LET r == ApiInstallSpt(cache, version, failAt) IN
        /\ cache' = r.cache
        /\ hist' = Append(hist, [version |-> version, key |-> CachePath(version),
                                 fail |-> failAt, ran |-> r.ran, built |-> r.built,
                                 err |-> r.err,
                                 visible |-> HasKey(r.cache, CachePath(version))])
    /\ UNCHANGED <<ipc, input, avail, tmp, disk, result>>
    /\ UNCHANGED <<patchVars, srvVars, procVars>>

InitApi ==
    /\ ipc = "api"
    /\ cache = {} /\ hist = <<>>
    /\ input = <<>> /\ avail = {} /\ tmp = {} /\ disk = <<>> /\ result = <<>>
    /\ PatchIdle /\ SrvIdle /\ ProcIdle

SpecApi == InitApi /\ [][ApiInstallSptCall]_vars

\* C21: after a build that failed at one of its commands no entry is visible
\* under the key, and a later install of the same key in which nothing is
\* made to fail succeeds.
C21_FailedBuildLeavesNoEntry ==
    \A i \in 1..Len(hist) :
        (hist[i].ran /\ hist[i].err \in ApiCommands) =>
            /\ ~hist[i].visible
            /\ \A j \in (i + 1)..Len(hist) :
                (hist[j].key = hist[i].key /\ hist[j].fail = 0) =>
                    hist[j].err = NilErr /\ hist[j].visible

C21_Witness ==
    \E i, j \in 1..Len(hist) :
        /\ i < j /\ hist[i].key = hist[j].key
        /\ hist[i].ran /\ hist[i].err \in ApiCommands \ {"git clone"}
        /\ hist[j].built /\ hist[j].err = NilErr

\* C22: the build of a key succeeds at most once over a sequence of installs.
C22_BuildsOncePerKey ==
    \A i, j \in 1..Len(hist) :
        (i < j /\ hist[i].key = hist[j].key /\ hist[i].built) => ~hist[j].built

(***************************************************************************)
(* InstallMods (README.md, helper-library variant): every mod URL goes     *)
(* through the cache under the key "mod-<file name of the URL>".           *)
(***************************************************************************)
MaxUrls == 2
MaxRuns == 2

\* a mod URL: where it is served from and its last path element
ModUrls ==
    {[host |-> "a", base |-> "x.zip"], [host |-> "b", base |-> "x.zip"],
     [host |-> "a", base |-> "y.zip"]}

\* key := fmt.Sprintf("mod-%s", filepath.Base(modUrl))
ModKey(modUrl) == [kind |-> "mod", name |-> modUrl.base]

\* the populate callback: helper.Download, then helper.Extract
PopulateMod(modUrl, fault) ==
    IF fault \in {"download", "extract"}
    THEN [err |-> fault, content |-> NoContent]
    ELSE [err |-> NilErr, content |-> [of |-> modUrl.base, from |-> modUrl.host]]

InstallMod_NoCache(c, modUrl, fault) ==
    LET p == PopulateMod(modUrl, fault) IN
    [cache |-> IF p.err = NilErr
               THEN c \cup {[key |-> ModKey(modUrl), content |-> p.content]}
               ELSE c,
     err |-> p.err, ran |-> TRUE, content |-> p.content]
\* err := helper.CacheFile(ctx, key, helper.Dirs(ctx)["spt"], func ...)
InstallMod(c, modUrl, fault) ==
    CacheFile(c, ModKey(modUrl), PopulateMod(modUrl, fault))

\* the loop of InstallMods from the i-th URL on; the fault strikes the
\* failAt-th URL if its populate runs
RECURSIVE InstallModsFrom(_, _, _, _, _, _)
InstallModsFrom(c, modUrls, i, failAt, fault, done) ==
    IF i > Len(modUrls) THEN [cache |-> c, log |-> done, err |-> NilErr]
    ELSE LET r == InstallMod(c, modUrls[i], IF i = failAt THEN fault ELSE "none")
             entry == [key |-> ModKey(modUrls[i]), ran |-> r.ran, err |-> r.err]
         IN  IF r.err # NilErr
             THEN [cache |-> r.cache, log |-> Append(done, entry), err |-> r.err]
             ELSE InstallModsFrom(r.cache, modUrls, i + 1, failAt, fault,
                                  Append(done, entry))

InstallMods(c, modUrls, failAt, fault) ==
    InstallModsFrom(c, modUrls, 1, failAt, fault, <<>>)

\* one start of the container: InstallMods(ctx, modUrls...)
InstallModsCall ==
    /\ ipc = "mods" /\ Len(hist) < MaxRuns
    /\ \E modUrls \in SeqsUpTo(ModUrls, MaxUrls), failAt \in 0..MaxUrls,
          fault \in {"download", "extract"} :
        LET r == InstallMods(cache, modUrls, failAt, fault) IN
        /\ cache' = r.cache
        /\ hist' = Append(hist, r.log)
    /\ UNCHANGED <<ipc, input, avail, tmp, disk, result>>
    /\ UNCHANGED <<patchVars, srvVars, procVars>>

InitMods ==
    /\ ipc = "mods"
    /\ cache = {} /\ hist = <<>>
    /\ input = <<>> /\ avail = {} /\ tmp = {} /\ disk = <<>> /\ result = <<>>
    /\ PatchIdle /\ SrvIdle /\ ProcIdle

SpecMods == InitMods /\ [][InstallModsCall]_vars

\* the occurrences of keys over the runs, and their order
Occurrences == {o \in (1..Len(hist)) \X (1..MaxUrls + 1) : o[2] <= Len(hist[o[1]])}
OccBefore(a, b) == a[1] < b[1] \/ (a[1] = b[1] /\ a[2] < b[2])
Occ(o) == hist[o[1]][o[2]]

\* C23 as stated: a key is downloaded and extracted at its first occurrence
\* only; no later occurrence of the key downloads.
C23_OneDownloadPerKey ==
    \A a, b \in Occurrences :
        (OccBefore(a, b) /\ Occ(a).key = Occ(b).key) => ~Occ(b).ran

\* C23 amended: a key is downloaded and extracted with success at most once;
\* after that success no occurrence of the key downloads, and every
\* occurrence before it does.
C23_OneSuccessfulDownloadPerKey ==
    \A b \in Occurrences :
        Occ(b).ran <=>
            ~\E a \in Occurrences :
                OccBefore(a, b) /\ Occ(a).key = Occ(b).key /\ Occ(a).err = NilErr

C23_Witness ==
    \E a, b, d \in Occurrences :
        /\ OccBefore(a, b) /\ OccBefore(b, d)
        /\ Occ(a).key = Occ(b).key /\ Occ(b).key = Occ(d).key
        /\ Occ(a).ran /\ Occ(a).err # NilErr
        /\ Occ(b).ran /\ Occ(b).err = NilErr
        /\ ~Occ(d).ran

(***************************************************************************)
(* symlinkPersistentData (main.go): spt/user/profiles becomes a symlink to *)
(* data/user/profiles.                                                     *)
(***************************************************************************)
ProfileNames == {"p1", "p2"}
NoEntry == [type |-> "absent", names |-> {}]
PlainFile == [type |-> "file", names |-> {}]
Dir(names) == [type |-> "dir", names |-> names]
\* a symlink to persistentProfiles
Link == [type |-> "link", names |-> {}]

ErrNoEnt == "no such file or directory"

\* the disk: spt, spt/user (serverProfilesParent), spt/user/profiles
\* (serverProfiles) and data/user/profiles (persistentProfiles)
Disks ==
    {d \in [spt : BOOLEAN, parent : BOOLEAN,
            server : {NoEntry, PlainFile, Link} \cup {Dir(n) : n \in SUBSET ProfileNames},
            persistent : {NoEntry} \cup {Dir(n) : n \in SUBSET ProfileNames}] :
        /\ d.parent => d.spt
        /\ d.server # NoEntry => d.parent}

\* os.MkdirAll(filepath.Dir(serverProfilesParent), 0755): creates spt
MkdirAllParent(d) == [d EXCEPT !.spt = TRUE]
\* os.RemoveAll(serverProfiles)
RemoveAllServer(d) == [d EXCEPT !.server = NoEntry]
\* os.MkdirAll(persistentProfiles, 0755)
MkdirAllPersistent(d) ==
    IF d.persistent = NoEntry THEN [d EXCEPT !.persistent = Dir({})] ELSE d
\* os.Symlink(persistentProfiles, serverProfiles)
Symlink(d) ==
    IF ~d.parent THEN [disk |-> d, err |-> ErrNoEnt]
    ELSE IF d.server # NoEntry THEN [disk |-> d, err |-> "file exists"]
    ELSE [disk |-> [d EXCEPT !.server = Link], err |-> NilErr]

symlinkPersistentData(d) ==
    Symlink(MkdirAllPersistent(RemoveAllServer(MkdirAllParent(d))))

SymlinkPersistentDataCall ==
    /\ ipc = "link" /\ Len(hist) < MaxRuns
    /\ LET r == symlinkPersistentData(disk) IN
        /\ disk' = r.disk
        /\ hist' = Append(hist, [err |-> r.err, before |-> disk, after |-> r.disk])
    /\ UNCHANGED <<ipc, input, avail, cache, tmp, result>>
    /\ UNCHANGED <<patchVars, srvVars, procVars>>

\* the server, started after the linker succeeded, saves a profile in
\* spt/user/profiles, that is, through the symlink
ServerSavesProfile ==
    /\ ipc = "link" /\ hist # <<>> /\ hist[Len(hist)].err = NilErr
    /\ disk.server = Link /\ disk.persistent.type = "dir"
    /\ \E n \in ProfileNames \ disk.persistent.names :
        disk' = [disk EXCEPT !.persistent = Dir(disk.persistent.names \cup {n})]
    /\ UNCHANGED <<ipc, input, avail, cache, tmp, hist, result>>
    /\ UNCHANGED <<patchVars, srvVars, procVars>>

InitLink ==
    /\ ipc = "link"
    /\ disk \in Disks /\ hist = <<>>
    /\ input = <<>> /\ avail = {} /\ cache = {} /\ tmp = {} /\ result = <<>>
    /\ PatchIdle /\ SrvIdle /\ ProcIdle

SpecLink == InitLink /\ [][SymlinkPersistentDataCall \/ ServerSavesProfile]_vars

\* C26: every run of the linker succeeds and leaves the symlink at
\* spt/user/profiles, and a second run leaves the disk as the first left it.
C26_LinkerTwice ==
    \A i \in 1..Len(hist) :
        /\ hist[i].err = NilErr
        /\ hist[i].after.server = Link
        /\ (i > 1 /\ hist[i].before = hist[i - 1].after) =>
                hist[i].after = hist[i - 1].after

(***************************************************************************)
(* installMods, download and extract (main.go): no cache, every URL of    *)
(* the list is downloaded to a temporary directory and extracted.          *)
(***************************************************************************)
EnvModUrls ==
    {[base |-> "x.zip", ext |-> ".zip"], [base |-> "y.7z", ext |-> ".7z"],
     [base |-> "z.txt", ext |-> ".txt"]}
StatusCodes == {200, 404}

ErrNon200 == "sent non-200 status code"
ErrFileType == "unrecongized file type"

\* what installMods does, in order; i is the position of the URL in the list
Event(op, i, modUrl) == [op |-> op, i |-> i, url |-> modUrl]

\* extract(src, dest); broken: the archives the tool fails on
extract(i, modUrl, broken) ==
    IF modUrl.ext = ".zip"
    THEN [events |-> <<Event("unzip", i, modUrl)>>,
          err |-> IF modUrl \in broken THEN "unzip" ELSE NilErr]
    ELSE IF modUrl.ext = ".7z"
    THEN [events |-> <<Event("7z", i, modUrl)>>,
          err |-> IF modUrl \in broken THEN "7z" ELSE NilErr]
    ELSE [events |-> <<>>, err |-> ErrFileType]

StatusOK_Any(code) == TRUE
\* if response.StatusCode != http.StatusOK { return fmt.Errorf(...) }
StatusOK(code) == code = 200

\* download(url, cb) with cb = extract into pathSpt; dirs: the temporary
\* directories on disk
download(i, modUrl, code, broken, dirs) ==
    LET got == IF ~StatusOK(code)
               THEN [events |-> <<>>, err |-> ErrNon200]
               ELSE extract(i, modUrl, broken)
    IN  [events |-> <<Event("MkdirTemp", i, modUrl), Event("GET", i, modUrl)>>
                    \o got.events \o <<Event("RemoveAll", i, modUrl)>>,
         err |-> got.err,
         dirs |-> (dirs \cup {i}) \ {i}]

RECURSIVE installModsFrom(_, _, _, _, _, _)
installModsFrom(modUrls, i, status, broken, dirs, done) ==
    IF i > Len(modUrls) THEN [events |-> done, err |-> NilErr, dirs |-> dirs]
    ELSE LET r == download(i, modUrls[i], status[modUrls[i]], broken, dirs) IN
         IF r.err # NilErr
         THEN [events |-> done \o r.events, err |-> r.err, dirs |-> r.dirs]
         ELSE installModsFrom(modUrls, i + 1, status, broken, r.dirs,
                              done \o r.events)

installMods(modUrls, status, broken) ==
    installModsFrom(modUrls, 1, status, broken, {}, <<>>)

installModsCall ==
    /\ ipc = "installMods"
    /\ LET r == installMods(input.modUrls, input.status, input.broken) IN
        /\ hist' = r.events
        /\ tmp' = r.dirs
        /\ result' = <<r.err>>
    /\ ipc' = "installed"
    /\ UNCHANGED <<input, avail, cache, disk>>
    /\ UNCHANGED <<patchVars, srvVars, procVars>>

InitInstallMods ==
    /\ ipc = "installMods"
    /\ input \in [modUrls : SeqsUpTo(EnvModUrls, MaxUrls),
                  status : [EnvModUrls -> StatusCodes],
                  broken : SUBSET EnvModUrls]
    /\ hist = <<>> /\ tmp = {} /\ result = <<>>
    /\ avail = {} /\ cache = {} /\ disk = <<>>
    /\ PatchIdle /\ SrvIdle /\ ProcIdle

SpecInstallMods == InitInstallMods /\ [][installModsCall]_vars

Extracting == {"unzip", "7z"}
\* the positions of the list whose URL was requested, in the order of the requests
Requested == [k \in 1..Cardinality({e \in 1..Len(hist) : hist[e].op = "GET"}) |->
                 hist[CHOOSE e \in 1..Len(hist) :
                        /\ hist[e].op = "GET"
                        /\ Cardinality({f \in 1..e : hist[f].op = "GET"}) = k]]

\* C28: the URLs are requested in list order; when a URL answers with a
\* status other than 200 installMods returns an error, nothing is extracted
\* for that URL, no later URL is requested or extracted, and no temporary
\* directory is left.
C28_Non200StopsInstall ==
    ipc = "installed" =>
        /\ \A k \in 1..Len(Requested) :
            Requested[k].i = k /\ Requested[k].url = input.modUrls[k]
        /\ \A e \in 1..Len(hist) :
            (hist[e].op = "GET" /\ input.status[hist[e].url] # 200) =>
                /\ result # <<NilErr>>
                /\ \A f \in 1..Len(hist) :
                    /\ hist[f].op \in Extracting => hist[f].i < hist[e].i
                    /\ hist[f].i <= hist[e].i
                /\ tmp = {}
                /\ \E f \in (e + 1)..Len(hist) :
                    hist[f].op = "RemoveAll" /\ hist[f].i = hist[e].i

C28_Witness ==
    /\ ipc = "installed" /\ Len(input.modUrls) >= 2
    /\ input.status[input.modUrls[1]] = 200
    /\ input.status[input.modUrls[2]] # 200
    /\ \E e \in 1..Len(hist) : hist[e].op = "GET" /\ hist[e].i = 2
    /\ \E e \in 1..Len(hist) : hist[e].op \in Extracting /\ hist[e].i = 1
    /\ result = <<ErrNon200>>

(***************************************************************************)
(* The build pipeline of InstallSpt on its own: one populate.              *)
(***************************************************************************)
BuildSptCall ==
    /\ ipc = "pipeline"
    /\ result' = <<BuildSpt(input.version, avail, input.failAt)>>
    /\ ipc' = "built"
    /\ UNCHANGED <<input, avail, cache, tmp, disk, hist>>
    /\ UNCHANGED <<patchVars, srvVars, procVars>>

InitPipeline ==
    /\ ipc = "pipeline"
    /\ input \in [version : Versions, failAt : 0..(Cardinality(Versions) + 6)]
    /\ avail \in SUBSET Versions
    /\ cache = {} /\ tmp = {} /\ disk = <<>> /\ hist = <<>> /\ result = <<>>
    /\ PatchIdle /\ SrvIdle /\ ProcIdle

SpecPipeline == InitPipeline /\ [][BuildSptCall]_vars

Names(commands) == [i \in 1..Len(commands) |-> commands[i].name]
Applied(commands) ==
    LET n == Cardinality({i \in 1..Len(commands) : commands[i].name = "git apply"})
    IN  [k \in 1..n |-> commands[k + 2].arg]

\* C31: the commands that ran are a prefix of clone, checkout of the pinned
\* version, one git apply per selected patch in ascending order, lfs pull,
\* npm install, release build, mv; the prefix ends at the command that
\* failed, and mv ran only when nothing before it failed.
C31_PipelineOrder ==
    ipc = "built" =>
        LET r == result[1]
            selected == FindPatchFiles(input.version, avail)
            full == <<"git clone", "git checkout">>
                    \o [i \in 1..Len(selected) |-> "git apply"]
                    \o <<"git lfs pull", "npm install", "npm run build:release", "mv">>
            n == Len(r.commands)
        IN  /\ n <= Len(full) /\ Names(r.commands) = SubSeq(full, 1, n)
            /\ n >= 2 => r.commands[2].arg = input.version
            /\ \A k \in 1..Len(Applied(r.commands)) : Applied(r.commands)[k] = selected[k]
            /\ \A i, j \in 1..Len(selected) : i < j => Compare(selected[i], selected[j]) <= 0
            /\ r.err # NilErr => (n = input.failAt /\ r.commands[n].name = r.err)
            /\ r.err = NilErr => n = Len(full)
            /\ (n > 0 /\ r.commands[n].name = "mv" /\ r.err # "mv") => r.err = NilErr
            /\ (\E i \in 1..n : r.commands[i].name = "mv") => input.failAt \notin 1..(n - 1)

C31_Witness ==
    /\ ipc = "built"
    /\ result[1].err = "git lfs pull"
    /\ Len(Applied(result[1].commands)) = 2
    /\ result[1].commands[Len(result[1].commands)].name = "git lfs pull"

\* C39: started on an install root without the directory user, the linker
\* creates it and succeeds, leaving spt/user/profiles as the symlink.
C39_ParentEnsured ==
    \A i \in 1..Len(hist) :
        (ipc = "link" /\ hist[i].before.spt /\ ~hist[i].before.parent) =>
            /\ hist[i].err = NilErr
            /\ hist[i].after.parent
            /\ hist[i].after.server = Link

(***************************************************************************)
(* SymlinkDataDirs (README.md): one symlink per data directory, through    *)
(* helper.SymlinkDir, the PersistentDataLinker of the specification.       *)
(***************************************************************************)
NestedDir == "user/profiles/x"
ModsDir == "user/mods"
LinkDirNames == {ProfilesDir, NestedDir, ModsDir}

\* the places on disk: under spt (s) and under data (d), for user/profiles
\* (P), user/profiles/x (X) and user/mods (M)
Locs == {"sP", "sX", "sM", "dP", "dX", "dM"}
DataLocs == {"dP", "dX", "dM"}
\* sptPath := filepath.Join(helper.Dirs(ctx)["spt"], dataDir)
SptPath(dataDir) ==
    IF dataDir = ProfilesDir THEN "sP" ELSE IF dataDir = NestedDir THEN "sX" ELSE "sM"
\* dataPath := filepath.Join(helper.Dirs(ctx)["data"], dataDir)
DataPath(dataDir) ==
    IF dataDir = ProfilesDir THEN "dP" ELSE IF dataDir = NestedDir THEN "dX" ELSE "dM"
Inside(loc) == IF loc = "sP" THEN {"sX"} ELSE IF loc = "dP" THEN {"dX"} ELSE {}

\* a disk: what is at each place (absent, dir, or a symlink to the data
\* path of the same directory) and which directories hold a file
LinkDisks ==
    {d \in [type : [Locs -> {"absent", "dir", "link"}], files : SUBSET Locs] :
        /\ \A l \in DataLocs : d.type[l] # "link"
        /\ \A l \in Locs : \A c \in Inside(l) : d.type[c] # "absent" => d.type[l] = "dir"
        /\ \A l \in d.files : d.type[l] = "dir"
        /\ d.files \subseteq DataLocs}

\* the place an install-side path names: below a symlinked user/profiles it
\* is a place under data
Resolve(d, dataDir) ==
    IF dataDir = NestedDir /\ d.type["sP"] = "link" THEN "dX" ELSE SptPath(dataDir)

RemoveAllAt(d, loc) ==
    LET gone == IF d.type[loc] = "dir" THEN {loc} \cup Inside(loc) ELSE {loc} IN
    [type |-> [l \in Locs |-> IF l \in gone THEN "absent" ELSE d.type[l]],
     files |-> d.files \ gone]

\* ensure the persistent-storage side exists
MkdirAllData(d, dataDir) ==
    LET loc == DataPath(dataDir)
        above == IF dataDir = NestedDir /\ d.type["dP"] = "absent"
              THEN [d EXCEPT !.type["dP"] = "dir"] ELSE d
    IN  IF above.type[loc] = "link" THEN [disk |-> above, err |-> "not a directory"]
        ELSE [disk |-> [above EXCEPT !.type[loc] = "dir"], err |-> NilErr]

\* helper.SymlinkDir(ctx, dataPath, sptPath): ensure the persistent side,
\* remove what occupies the install-side path, create the symlink
SymlinkDir(d, dataDir) ==
    LET m == MkdirAllData(d, dataDir) IN
    IF m.err # NilErr THEN m
    ELSE LET loc == Resolve(m.disk, dataDir)
             r == RemoveAllAt(m.disk, loc)
         IN  IF dataDir = NestedDir /\ r.type["sP"] = "absent"
             THEN [disk |-> r, err |-> ErrNoEnt]
             ELSE [disk |-> [r EXCEPT !.type[loc] = "link"], err |-> NilErr]

RECURSIVE SymlinkDataDirs(_, _)
\* for _, dataDir := range dataDirs { err := helper.SymlinkDir(...) }
SymlinkDataDirs(d, dataDirs) ==
    IF dataDirs = <<>> THEN [disk |-> d, err |-> NilErr]
    ELSE LET r == SymlinkDir(d, Head(dataDirs)) IN
         IF r.err # NilErr THEN r ELSE SymlinkDataDirs(r.disk, Tail(dataDirs))

\* Entrypoint: SymlinkDataDirs(ctx, MergeDataDirs([]string{"user/profiles"}, config.DataDirs))
SymlinkDataDirsCall ==
    /\ ipc = "linkdirs" /\ Len(hist) < MaxRuns
    /\ LET r == SymlinkDataDirs(disk, MergeDataDirs(EntrypointDataDirs(input.dataDirs))) IN
        /\ disk' = r.disk
        /\ hist' = Append(hist, [err |-> r.err, before |-> disk, after |-> r.disk])
    /\ UNCHANGED <<ipc, input, avail, cache, tmp, result>>
    /\ UNCHANGED <<patchVars, srvVars, procVars>>

InitLinkDirs ==
    /\ ipc = "linkdirs"
    /\ input \in [dataDirs : SeqsUpTo(LinkDirNames, MaxDirs)]
    /\ disk \in LinkDisks /\ hist = <<>>
    /\ avail = {} /\ cache = {} /\ tmp = {} /\ result = <<>>
    /\ PatchIdle /\ SrvIdle /\ ProcIdle

SpecLinkDirs == InitLinkDirs /\ [][SymlinkDataDirsCall]_vars

\* C35: every file under the data root before a run of the linker is still
\* there after the run.
C35_DataNeverDeleted ==
    \A i \in 1..Len(hist) :
        ipc = "linkdirs" => hist[i].before.files \subseteq hist[i].after.files

(***************************************************************************)
(* More properties of preEntrypoint.                                       *)
(***************************************************************************)
IsSpawn(c) == c[Len(c)] = "entrypoint"
IsChown(c, owner, path) == c = <<"chown", "-R", <<owner.Uid, owner.Gid>>, path>>
IsReconcile(c) == c[1] \in {"usermod", "groupmod"}
Desired ==
    [Uid |-> getIntFromEnv(env.UID, sptUser.Uid).v,
     Gid |-> getIntFromEnv(env.GID, sptUser.Gid).v]
\* the trees are chowned to the desired identity, in the order given, after
\* the reconciliation and before the k-th command
ChownedBefore(k, paths) ==
    \E f \in [1..Len(paths) -> 1..(k - 1)] :
        /\ \A i \in 1..Len(paths) : IsChown(cmds[f[i]], Desired, paths[i])
        /\ \A i \in 1..(Len(paths) - 1) : f[i] < f[i + 1]
        /\ \A j \in 1..(k - 1) : IsReconcile(cmds[j]) => j < f[1]

\* C32 as stated: as root, the child is spawned only after the cache, the
\* data and the install tree have been chowned to the desired identity.
C32_SpawnAfterThreeChowns ==
    (RanPre /\ IsRoot) =>
        \A k \in 1..Len(cmds) :
            IsSpawn(cmds[k]) => ChownedBefore(k, <<"cache", "data", "spt">>)

\* C32 amended: as root, the commands run in the order reconciliation of the
\* account, chown of the data tree, chown of the install tree, spawn; the
\* spawn is the last command, and after a failing step there is none.
C32_SpawnAfterReconcileAndChowns ==
    (RanPre /\ IsRoot) =>
        /\ \A k \in 1..Len(cmds) :
            IsSpawn(cmds[k]) =>
                /\ k = Len(cmds)
                /\ ChownedBefore(k, <<"data", "spt">>)
                /\ \A j \in 1..(k - 1) : cmds[j][1] \in {"usermod", "groupmod", "chown"}
        /\ (child.state = "none" /\ procErr # NilErr) =>
                \A k \in 1..Len(cmds) : ~IsSpawn(cmds[k])
        /\ child.state # "none" => (cmds # <<>> /\ IsSpawn(cmds[Len(cmds)]))

C32_Witness ==
    /\ RanPre /\ IsRoot /\ env.UID = "2000" /\ env.GID = "2000"
    /\ Len(cmds) = 5 /\ IsSpawn(cmds[5])
    /\ cmds[1][1] = "usermod" /\ cmds[2][1] = "groupmod"
    /\ child.state = "running"

(***************************************************************************)
(* More properties of applyConfigPatches.                                  *)
(***************************************************************************)
\* C34: a file key one of whose patches failed has its file unchanged by
\* applyConfigPatches.
C34_FailedFileUnchanged ==
    GoDone =>
        \A k \in FailedFiles : fs[Join(PathSpt, k)] = fs0[Join(PathSpt, k)]

\* a second key for http.json
KHttpDot == <<".", "SPT_Data", "Server", "configs", "http.json">>

OrderKeys == {KHttp, KHttpDot, KTxt}
OrderPatches ==
    UNION {[D -> {JSetIp, JTestThenPort}] : D \in SUBSET OrderKeys}

InitOrder ==
    /\ engine = "go"
    /\ user \in OrderPatches
    /\ \E h \in HttpVariants : fs = FsInit(h, CfgSample)
    /\ fs0 = fs
    /\ maps = <<>> /\ data = <<>>
    /\ pc = "entry" /\ configPatches = <<>> /\ todo = {}
    /\ InitRest

NextGo == entrypointMerge \/ GoRange \/ GoApply \/ GoReturn

SpecOrder == InitOrder /\ [][NextGo]_vars

\* applyConfigPatches with the file keys visited in the order given
RECURSIVE ApplyPatchList(_, _, _)
ApplyPatchList(acc, relPath, patches) ==
    IF patches = <<>> THEN acc
    ELSE LET r == applyConfigPatch(acc.fs, relPath, Head(patches)) IN
         ApplyPatchList([fs |-> r.fs, failed |-> failedAfter(acc.failed, r.err)],
                        relPath, Tail(patches))

RECURSIVE ApplyInOrder(_, _, _)
ApplyInOrder(acc, cp, order) ==
    IF order = <<>> THEN acc
    ELSE ApplyInOrder(ApplyPatchList(acc, Head(order), cp[Head(order)]), cp,
                      Tail(order))

Orders(S) == {o \in [1..Cardinality(S) -> S] : Range(o) = S}

\* C36: the files and the error applyConfigPatches ends with are those of
\* every iteration order over the file keys.
C36_OrderIndependent ==
    GoDone =>
        \A o \in Orders(DOMAIN configPatches) :
            LET r == ApplyInOrder([fs |-> fs0, failed |-> FALSE], configPatches, o) IN
            /\ r.fs = fs
            /\ r.failed = (ret # Nil)

(***************************************************************************)
(* More properties of entrypoint.                                          *)
(***************************************************************************)
\* C38: when getConfigPatchesFromEnv fails, neither installMods nor
\* initializeServer has been started.
C38_ConfigErrorBeforeSideEffects ==
    \A i \in 1..Len(stages) :
        (stages[i].name = "getConfigPatchesFromEnv" /\ ~stages[i].ok) =>
            \A j \in 1..Len(stages) :
                stages[j].name \notin {"installMods", "initializeServer"}

(***************************************************************************)
(* One run of InstallMods on an empty cache: what is installed per URL.    *)
(***************************************************************************)
InstallModsOnce ==
    /\ ipc = "mods once"
    /\ LET r == InstallMods(cache, input.modUrls, input.failAt, input.fault) IN
        /\ cache' = r.cache
        /\ hist' = r.log
        /\ result' = <<r.err>>
    /\ ipc' = "mods installed"
    /\ UNCHANGED <<input, avail, tmp, disk>>
    /\ UNCHANGED <<patchVars, srvVars, procVars>>

InitModsOnce ==
    /\ ipc = "mods once"
    /\ input \in [modUrls : SeqsUpTo(ModUrls, MaxUrls), failAt : 0..MaxUrls,
                  fault : {"download", "extract"}]
    /\ cache = {} /\ hist = <<>> /\ result = <<>>
    /\ avail = {} /\ tmp = {} /\ disk = <<>>
    /\ PatchIdle /\ SrvIdle /\ ProcIdle

SpecModsOnce == InitModsOnce /\ [][InstallModsOnce]_vars

\* C37: different URLs of the list have different cache keys, and after a
\* successful InstallMods what is installed for a URL is the archive
\* downloaded from that URL.
C37_OwnEntryPerUrl ==
    (ipc = "mods installed" /\ result = <<NilErr>>) =>
        \A i \in 1..Len(input.modUrls) :
            LET modUrl == input.modUrls[i] IN
            /\ \A j \in 1..Len(input.modUrls) :
                input.modUrls[j] # modUrl => ModKey(input.modUrls[j]) # ModKey(modUrl)
            /\ EntryOf(cache, ModKey(modUrl)).content
                    = [of |-> modUrl.base, from |-> modUrl.host]

(***************************************************************************)
(* Patcher.applyCfgPatch applied twice to one file with one patch.         *)
(***************************************************************************)
CfgPath == Join(PathSpt, KCfg)

\* lines of a cfg file, among them a key that starts with a bracket
TwiceLines ==
    { <<"[", "Http", "]">>,
      <<"[", "Http", " ", "=", " ", "x", "]">>,
      <<"[", "Http", " ", "=", " ", "1">>,
      <<"Port", " ", "=", " ", "6969">>,
      <<" ", "Port", "=", "1">> }
TwiceFiles == UNION {[1..n -> TwiceLines] : n \in 1..MaxCfgLines}

\* replace patches /section/key with a value of one line
TwicePatches ==
    { Patch("replace", PtrHttpPort, <<"8080">>),
      Patch("replace", PtrHttpPort, <<"6969">>),
      Patch("replace", <<"", "Http", "[Http">>, <<"x]">>),
      Patch("replace", <<"", "Http = x", "[Http">>, <<"x]">>) }

\* await patcher.applyCfgPatch(path, patch), for the first and the second time
ApplyCfgPatchCall ==
    /\ ipc = "cfg twice" /\ Len(hist) < 2
    /\ LET r == applyCfgPatch((CfgPath :> TextFile(disk)), CfgPath, KCfg, input)
           index == cfgScan(disk, 1, <<>>, input.path[2], input.path[3])
       IN  /\ disk' = r.fs[CfgPath].lines
           /\ hist' = Append(hist, [err |-> r.err, index |-> index,
                                    lines |-> r.fs[CfgPath].lines])
    /\ UNCHANGED <<ipc, input, avail, cache, tmp, result>>
    /\ UNCHANGED <<patchVars, srvVars, procVars>>

InitTwice ==
    /\ ipc = "cfg twice"
    /\ input \in TwicePatches
    /\ disk \in TwiceFiles
    /\ hist = <<>> /\ avail = {} /\ cache = {} /\ tmp = {} /\ result = <<>>
    /\ PatchIdle /\ SrvIdle /\ ProcIdle

SpecTwice == InitTwice /\ [][ApplyCfgPatchCall]_vars

\* C40: the second application of a patch leaves the file as the first left
\* it and rewrites the line the first rewrote.
C40_CfgPatchIdempotent ==
    Len(hist) = 2 =>
        /\ hist[2].lines = hist[1].lines
        /\ hist[2].index = hist[1].index

(***************************************************************************)
(* entrypoint (main.go) from applyConfigPatches to runServer, on a tree    *)
(* with a file below user/profiles.                                        *)
(***************************************************************************)
KProfile == <<"user", "profiles", "p.json">>
SptProfile == Join(PathSpt, KProfile)
DataProfile == <<"data", "user", "profiles", "p.json">>
ProfileDoc == JsonFile([ip |-> VLocal])
OtherProfileDoc == JsonFile([ip |-> VDefault])

\* CONFIG_PATCHES naming http.json and the file below user/profiles
PersistPatches == UNION {[D -> {JSetIp}] : D \in SUBSET {KHttp, KProfile}}

\* the tree: the files, whether spt/user exists, and what spt/user/profiles
\* is ("absent", "dir" or "link" to data/user/profiles)
Trees ==
    {t \in [fs : [{HttpPath, SptProfile, DataProfile} ->
                    {Absent, JsonFile(HttpDoc), ProfileDoc, OtherProfileDoc}],
            parent : BOOLEAN, server : {"absent", "dir"}] :
        /\ t.fs[HttpPath] = JsonFile(HttpDoc)
        /\ t.fs[SptProfile] \in {Absent, ProfileDoc}
        /\ t.fs[DataProfile] \in {Absent, ProfileDoc, OtherProfileDoc}
        /\ t.fs[SptProfile] # Absent => t.server = "dir"
        /\ t.server = "dir" => t.parent}

\* symlinkPersistentData on a tree: MkdirAll(spt), RemoveAll(serverProfiles),
\* MkdirAll(persistentProfiles), Symlink(persistentProfiles, serverProfiles)
symlinkProfiles(t) ==
    LET removed == [t EXCEPT !.fs[SptProfile] = Absent, !.server = "absent"] IN
    IF ~removed.parent THEN [tree |-> removed, err |-> ErrNoEnt]
    ELSE [tree |-> [removed EXCEPT !.server = "link"], err |-> NilErr]

\* the file the server opens at a path relative to its directory
Seen(t, relPath) ==
    IF relPath = KProfile
    THEN IF t.server = "link" THEN t.fs[DataProfile] ELSE t.fs[SptProfile]
    ELSE t.fs[Join(PathSpt, relPath)]

\* err = applyConfigPatches(mergeConfigPatches(ConfigPatches{...}, configPatches))
PersistApply ==
    /\ ipc = "applyConfigPatches"
    /\ LET cp == mergeConfigPatches(<<BuiltIn, input>>) IN
       \E o \in Orders(DOMAIN cp) :
        LET r == ApplyInOrder([fs |-> disk.fs, failed |-> FALSE], cp, o) IN
        /\ disk' = [disk EXCEPT !.fs = r.fs]
        /\ hist' = Append(hist, [stage |-> "applyConfigPatches", ok |-> ~r.failed,
                                 tree |-> disk'])
        /\ ipc' = IF r.failed THEN "failed" ELSE "symlinkPersistentData"
    /\ UNCHANGED <<input, avail, cache, tmp, result>>
    /\ UNCHANGED <<patchVars, srvVars, procVars>>

\* err = symlinkPersistentData()
PersistLink ==
    /\ ipc = "symlinkPersistentData"
    /\ LET r == symlinkProfiles(disk) IN
        /\ disk' = r.tree
        /\ hist' = Append(hist, [stage |-> "symlinkPersistentData",
                                 ok |-> r.err = NilErr, tree |-> r.tree])
        /\ ipc' = IF r.err # NilErr THEN "failed" ELSE "runServer"
    /\ UNCHANGED <<input, avail, cache, tmp, result>>
    /\ UNCHANGED <<patchVars, srvVars, procVars>>

\* return runServer(): the server starts on the tree as it is
PersistRun ==
    /\ ipc = "runServer"
    /\ hist' = Append(hist, [stage |-> "runServer", ok |-> TRUE, tree |-> disk])
    /\ ipc' = "running"
    /\ UNCHANGED <<input, avail, cache, tmp, disk, result>>
    /\ UNCHANGED <<patchVars, srvVars, procVars>>

InitPersist ==
    /\ ipc = "applyConfigPatches"
    /\ input \in PersistPatches
    /\ disk \in Trees
    /\ hist = <<>> /\ avail = {} /\ cache = {} /\ tmp = {} /\ result = <<>>
    /\ PatchIdle /\ SrvIdle /\ ProcIdle

SpecPersist == InitPersist /\ [][PersistApply \/ PersistLink \/ PersistRun]_vars

\* C33: when the server starts, the file it sees at every patched path has
\* the content applyConfigPatches left there.
C33_PatchesInEffectAtRun ==
    ipc = "running" =>
        \A k \in DOMAIN input \cup DOMAIN BuiltIn :
            Seen(disk, k) = hist[1].tree.fs[Join(PathSpt, k)]
====
